---- MODULE Spec2Model ----
(***************************************************************************)
(* A model of the Bluesky MCP server: the call-tool dispatcher of          *)
(* src/index.ts, the posting tools of src/tools/posting.ts and the         *)
(* BlueskyClient adapter, run against an abstract upstream (the PDS).      *)
(*                                                                         *)
(* Strings whose characters the code inspects (image paths, inline image   *)
(* data) are sequences of one-character strings.  An AT-URI is the         *)
(* sequence of its '/'-separated segments, so "at://did/coll/rkey" is      *)
(* <<"at:", "", did, coll, rkey>> and uri.split('/') is the sequence       *)
(* itself.  An optional value is a sequence of length 0 (absent) or 1.     *)
(***************************************************************************)
EXTENDS Integers, Sequences, FiniteSets, TLC

\* ------------------------------------------------------------------ bounds

\* Calls the host delivers one after the other on one call slot.
MaxCalls == 2
\* Longest `posts` array a create_thread call is given.
MaxThread == 3
\* Most images a post call is given.
MaxImages == 2
\* The clock stops advancing here.
MaxTime == 6000
\* Granularity of the clock, in milliseconds.
TickMs == 500
\* Most nodes of a thread view the upstream returns.
MaxThreadNodes == 4

\* ------------------------------------------------------- program constants

\* setTimeout(resolve, 1000) in create_thread.
PacingDelayMs == 1000
\* maxLength of a post text in the input schemas.
MaxTextLength == 300
\* maxItems of post.images.
MaxImageItems == 4
\* minItems / maxItems of create_thread.posts.
MinThreadItems == 2
MaxThreadItems == 25
\* maximum of every `limit` argument.
MaxLimit == 100
\* getTimeline's default limit.
DefaultTimelineLimit == 50
\* get_author_feed's and search_posts' default limits.
DefaultAuthorFeedLimit == 50
DefaultSearchLimit == 25
\* The default limit of the other listings, and of get_suggested_follows.
DefaultPageLimit == 50
DefaultSuggestionsLimit == 25

\* ---------------------------------------------------------------- options

None == <<>>
Some(x) == <<x>>
IsSome(o) == Len(o) = 1
Get(o) == o[1]

\* ---------------------------------------------------------------- strings

UpperCase == <<"A", "B", "C", "D", "E", "F", "G", "H", "I", "J", "K", "L", "M", "N", "O", "P", "Q", "R", "S", "T", "U", "V", "W", "X", "Y", "Z">>
LowerCase == <<"a", "b", "c", "d", "e", "f", "g", "h", "i", "j", "k", "l", "m", "n", "o", "p", "q", "r", "s", "t", "u", "v", "w", "x", "y", "z">>
Base64Alphabet == <<"A", "B", "C", "D", "E", "F", "G", "H", "I", "J", "K", "L", "M", "N", "O", "P", "Q", "R", "S", "T", "U", "V", "W", "X", "Y", "Z", "a", "b", "c", "d", "e", "f", "g", "h", "i", "j", "k", "l", "m", "n", "o", "p", "q", "r", "s", "t", "u", "v", "w", "x", "y", "z", "0", "1", "2", "3", "4", "5", "6", "7", "8", "9", "+", "/">>

IndexIn(alphabet, ch) ==
  IF \E i \in 1..Len(alphabet) : alphabet[i] = ch
  THEN CHOOSE i \in 1..Len(alphabet) : alphabet[i] = ch
  ELSE 0

\* String.prototype.toLowerCase
toLowerCase(s) ==
  [i \in 1..Len(s) |->
     IF IndexIn(UpperCase, s[i]) > 0 THEN LowerCase[IndexIn(UpperCase, s[i])] ELSE s[i]]

\* String.prototype.endsWith
endsWith(s, suffix) ==
  /\ Len(suffix) <= Len(s)
  /\ SubSeq(s, Len(s) - Len(suffix) + 1, Len(s)) = suffix

\* String.prototype.startsWith
startsWith(s, prefix) ==
  /\ Len(prefix) <= Len(s)
  /\ SubSeq(s, 1, Len(prefix)) = prefix

\* String.prototype.includes, for a one-character needle
includes(s, ch) == \E i \in 1..Len(s) : s[i] = ch

\* JavaScript truthiness of an optional string: undefined and "" are falsy.
Truthy(o) == IsSome(o) /\ Get(o) # <<>>

SuffixPng == <<".", "p", "n", "g">>
SuffixJpg == <<".", "j", "p", "g">>
SuffixJpeg == <<".", "j", "p", "e", "g">>
PrefixPng == <<"d", "a", "t", "a", ":", "i", "m", "a", "g", "e", "/", "p", "n", "g">>
PrefixJpeg == <<"d", "a", "t", "a", ":", "i", "m", "a", "g", "e", "/", "j", "p", "e", "g">>
PrefixJpg == <<"d", "a", "t", "a", ":", "i", "m", "a", "g", "e", "/", "j", "p", "g">>

\* ----------------------------------------------------------------- images

\* The part of a base64 argument that is decoded: base64.split(',')[1] when
\* the string holds a comma (a data URL), the whole string otherwise.
Base64Payload(s) ==
  IF includes(s, ",")
  THEN LET first == CHOOSE i \in 1..Len(s) :
                      s[i] = "," /\ \A j \in 1..(i - 1) : s[j] # ","
           rest == SubSeq(s, first + 1, Len(s))
       IN IF includes(rest, ",")
          THEN SubSeq(rest, 1, (CHOOSE i \in 1..Len(rest) :
                                  rest[i] = "," /\ \A j \in 1..(i - 1) : rest[j] # ",") - 1)
          ELSE rest
  ELSE s

\* The payload without its trailing '=' padding.
RECURSIVE StripPadding(_)
StripPadding(s) ==
  IF Len(s) > 0 /\ s[Len(s)] = "=" THEN StripPadding(SubSeq(s, 1, Len(s) - 1)) ELSE s

\* atob accepts the base64 alphabet with at most two padding characters and
\* rejects a payload whose unpadded length is 1 modulo 4.
AtobAccepts(s) ==
  LET body == StripPadding(s)
  IN /\ \A i \in 1..Len(body) : IndexIn(Base64Alphabet, body[i]) > 0
     /\ Len(s) - Len(body) <= 2
     /\ Len(body) % 4 # 1

\* atob followed by charCodeAt: the decoded bytes.
RECURSIVE DecodeGroups(_)
DecodeGroups(body) ==
  IF Len(body) = 0 THEN <<>>
  ELSE LET n == IF Len(body) >= 4 THEN 4 ELSE Len(body)
           v(i) == IF i <= n THEN IndexIn(Base64Alphabet, body[i]) - 1 ELSE 0
           word == v(1) * 262144 + v(2) * 4096 + v(3) * 64 + v(4)
           bytes == <<word \div 65536, (word \div 256) % 256, word % 256>>
       IN SubSeq(bytes, 1, n - 1) \o DecodeGroups(SubSeq(body, n + 1, Len(body)))

base64ToUint8Array(base64) == DecodeGroups(StripPadding(Base64Payload(base64)))

\* Whether base64ToUint8Array throws (atob's InvalidCharacterError).
base64Throws(base64) == ~AtobAccepts(Base64Payload(base64))

\* detectImageEncoding of tools/posting.ts: the file extension first, then
\* the data-URL prefix, JPEG by default.  The bytes are never looked at.
detectImageEncoding(pathOrData) ==
  LET lowerPath == toLowerCase(pathOrData)
  IN IF endsWith(lowerPath, SuffixPng) THEN "image/png"
     ELSE IF endsWith(lowerPath, SuffixJpg) \/ endsWith(lowerPath, SuffixJpeg) THEN "image/jpeg"
     ELSE IF startsWith(pathOrData, PrefixPng) THEN "image/png"
     ELSE IF startsWith(pathOrData, PrefixJpeg) \/ startsWith(pathOrData, PrefixJpg) THEN "image/jpeg"
     ELSE "image/jpeg"

\* ------------------------------------------------------------ file system

PathLowerPng == <<"/", "a", ".", "p", "n", "g">>
PathUpperPng == <<"/", "B", ".", "P", "N", "G">>
PathJpg == <<"/", "c", ".", "j", "p", "g">>
PathJpeg == <<"/", "d", ".", "j", "p", "e", "g">>
PathNoExt == <<"/", "e">>
PathMissing == <<"/", "x", ".", "p", "n", "g">>
DataUrlPng == <<"d", "a", "t", "a", ":", "i", "m", "a", "g", "e", "/", "p", "n", "g", ";", "b", "a", "s", "e", "6", "4", ",", "i", "V", "B", "O", "R", "w", "0", "K", "G", "g", "o", "=">>
DataUrlJpeg == <<"d", "a", "t", "a", ":", "i", "m", "a", "g", "e", "/", "j", "p", "e", "g", ";", "b", "a", "s", "e", "6", "4", ",", "/", "9", "j", "/", "4", "A", "=", "=">>
DataRawPng == <<"i", "V", "B", "O", "R", "w", "0", "K", "G", "g", "o", "=">>
DataRawJpeg == <<"/", "9", "j", "/", "4", "A", "=", "=">>
DataInvalid == <<"#">>

\* The first bytes of every PNG file and of a JPEG file.
PngMagic == <<137, 80, 78, 71, 13, 10, 26, 10>>
JpegMagic == <<255, 216, 255, 224>>

\* The files the host's disk holds: readFileSync returns their bytes and
\* throws ENOENT for any other path.
FileSystem ==
  (PathLowerPng :> PngMagic) @@ (PathUpperPng :> PngMagic) @@ (PathJpg :> JpegMagic)
    @@ (PathJpeg :> JpegMagic) @@ (PathNoExt :> PngMagic)

\* --------------------------------------------------------------- outcomes

\* A synchronous computation either returns a value or throws an Error
\* with a message.
Ok(v) == [ok |-> TRUE, value |-> <<v>>, error |-> ""]
Throw(msg) == [ok |-> FALSE, value |-> <<>>, error |-> msg]

ErrNoPathOrData == "Image must have either \"path\" or \"data\" property"
ErrNoEnt == "ENOENT: no such file or directory"
ErrAtob == "Invalid character"
ErrNotAFunction == "tool.handler is not a function"
ErrNotIterable == "args.posts is not iterable"
ErrReadUrl == "Cannot read properties of undefined (reading 'url')"

\* loadImage of tools/posting.ts.
loadImage(image) ==
  IF Truthy(image.path)
  THEN IF Get(image.path) \in DOMAIN FileSystem
       THEN Ok([data |-> FileSystem[Get(image.path)], alt |-> image.alt,
                encoding |-> Some(detectImageEncoding(Get(image.path)))])
       ELSE Throw(ErrNoEnt)
  ELSE IF Truthy(image.data)
  THEN IF base64Throws(Get(image.data))
       THEN Throw(ErrAtob)
       ELSE Ok([data |-> base64ToUint8Array(Get(image.data)), alt |-> image.alt,
                encoding |-> Some(detectImageEncoding(Get(image.data)))])
  ELSE Throw(ErrNoPathOrData)

\* args.images?.map((img) => loadImage(img)): the first image that throws
\* ends the map; an absent array stays absent.
RECURSIVE loadImages(_)
loadImages(images) ==
  IF Len(images) = 0 THEN Ok(<<>>)
  ELSE LET head == loadImage(Head(images))
       IN IF ~head.ok THEN head
          ELSE LET tail == loadImages(Tail(images))
               IN IF ~tail.ok THEN tail
                  ELSE Ok(<<Get(head.value)>> \o Get(tail.value))

\* ------------------------------------------------------- references, URIs

MyDid == "did:plc:me"
OtherDid == "did:plc:bob"
MyHandle == "me.bsky.social"
OtherHandle == "bob.bsky.social"
PostCollection == "app.bsky.feed.post"
ListCollection == "app.bsky.graph.list"
LikeCollection == "app.bsky.feed.like"
RepostCollection == "app.bsky.feed.repost"
FollowCollection == "app.bsky.graph.follow"
ListItemCollection == "app.bsky.graph.listitem"

AtUri(repo, collection, rkey) == <<"at:", "", repo, collection, rkey>>

\* uri.split('/')[2]: undefined when the string has fewer than three parts.
RepoOf(uri) == IF Len(uri) >= 3 THEN Some(uri[3]) ELSE None
\* uri.split('/').pop()
RkeyOf(uri) == uri[Len(uri)]

\* The record keys the upstream hands out, in order of creation.
RecordKeys == <<"3k01", "3k02", "3k03", "3k04", "3k05", "3k06", "3k07", "3k08", "3k09", "3k10", "3k11", "3k12", "3k13", "3k14", "3k15", "3k16", "3k17", "3k18", "3k19", "3k20">>

\* The content hash the upstream computes for the record stored under a key.
CidOf(rkey) == <<"bafy", rkey>>

Ref(uri, cid) == [uri |-> uri, cid |-> cid]

\* The reference of a stored post.
RefOf(p) == Ref(AtUri(p.repo, PostCollection, p.rkey), CidOf(p.rkey))

\* --------------------------------------------------------------- registry

Group(group, names) == [n \in names |-> [group |-> group, handler |-> n]]

postingTools ==
  Group("posting", {"post", "reply", "create_thread", "delete_post", "quote_post"})

feedTools == Group("feeds", {"get_timeline", "get_author_feed", "get_post_thread"})

searchTools ==
  Group("search", {"search_posts", "update_profile", "get_profile", "get_followers",
                   "get_following", "get_notifications", "get_suggested_follows",
                   "update_avatar", "get_lists", "get_list", "create_list",
                   "add_to_list", "remove_from_list"})

\* The engagement group, for a module that also exports a tool named
\* "post".
engagementTools_withPost ==
  [n \in {"like_post", "unlike_post", "repost", "delete_repost", "follow", "unfollow",
          "get_post_likes", "get_post_reposts", "post"} |->
     [group |-> "engagement", handler |-> IF n = "post" THEN "like_post" ELSE n]]

engagementTools ==
  Group("engagement", {"like_post", "unlike_post", "repost", "delete_repost", "follow",
                       "unfollow", "get_post_likes", "get_post_reposts"})

\* { ...a, ...b }: the keys of both, b's value where both have the key.
Spread(a, b) ==
  [n \in DOMAIN a \cup DOMAIN b |-> IF n \in DOMAIN b THEN b[n] ELSE a[n]]

allTools == Spread(Spread(Spread(postingTools, feedTools), searchTools), engagementTools)

\* The property names an object literal inherits from Object.prototype.
ObjectPrototypeKeys ==
  {"constructor", "toString", "toLocaleString", "valueOf", "hasOwnProperty",
   "isPrototypeOf", "propertyIsEnumerable", "__proto__", "__defineGetter__",
   "__defineSetter__", "__lookupGetter__", "__lookupSetter__"}

\* allTools[toolName]: a descriptor for a registered name, a member of
\* Object.prototype (truthy, without a handler) for an inherited name,
\* undefined for any other string.
Lookup(toolName) ==
  IF toolName \in DOMAIN allTools
  THEN [kind |-> "tool", tool |-> Some(allTools[toolName])]
  ELSE IF toolName \in ObjectPrototypeKeys
  THEN [kind |-> "inherited", tool |-> None]
  ELSE [kind |-> "undefined", tool |-> None]

\* -------------------------------------------------------------- arguments

\* request.params.arguments || {}: every property a handler reads, absent.
EmptyArgs ==
  [text |-> None, images |-> None, uri |-> None, cid |-> None, posts |-> None,
   limit |-> None, name |-> None, description |-> None, purpose |-> None,
   handle |-> None, query |-> None, displayName |-> None, path |-> None, data |-> None,
   like_uri |-> None, repost_uri |-> None, follow_uri |-> None, did |-> None,
   list_uri |-> None, listitem_uri |-> None]

\* A post text: its identity and its length in characters.
Text(id, len) == [id |-> id, len |-> len]
NoText == Text(0, 0)

Purposes == {"curatelist", "modlist"}

\* The constraints the tools' inputSchema objects declare.
SchemaValid(name, args) ==
  CASE name = "post" ->
         /\ IsSome(args.text) /\ Get(args.text).len <= MaxTextLength
         /\ IsSome(args.images) => Len(Get(args.images)) <= MaxImageItems
    [] name \in {"reply", "quote_post"} ->
         /\ IsSome(args.uri) /\ IsSome(args.cid)
         /\ IsSome(args.text) /\ Get(args.text).len <= MaxTextLength
    [] name = "create_thread" ->
         /\ IsSome(args.posts)
         /\ Len(Get(args.posts)) >= MinThreadItems
         /\ Len(Get(args.posts)) <= MaxThreadItems
         /\ \A i \in 1..Len(Get(args.posts)) : Get(args.posts)[i].len <= MaxTextLength
    [] name = "delete_post" -> IsSome(args.uri)
    [] name = "get_timeline" -> IsSome(args.limit) => Get(args.limit) <= MaxLimit
    [] name = "get_author_feed" ->
         /\ IsSome(args.handle)
         /\ IsSome(args.limit) => Get(args.limit) <= MaxLimit
    [] name = "search_posts" ->
         /\ IsSome(args.query)
         /\ IsSome(args.limit) => Get(args.limit) <= MaxLimit
    [] name \in {"get_post_likes", "get_post_reposts", "get_list"} ->
         /\ IsSome(args.uri)
         /\ IsSome(args.limit) => Get(args.limit) <= MaxLimit
    [] name \in {"get_followers", "get_following", "get_notifications",
                 "get_suggested_follows", "get_lists"} ->
         IsSome(args.limit) => Get(args.limit) <= MaxLimit
    [] name = "get_post_thread" -> IsSome(args.uri)
    [] name \in {"like_post", "repost"} -> IsSome(args.uri) /\ IsSome(args.cid)
    [] name = "unlike_post" -> IsSome(args.like_uri)
    [] name = "delete_repost" -> IsSome(args.repost_uri)
    [] name = "follow" -> IsSome(args.did)
    [] name = "unfollow" -> IsSome(args.follow_uri)
    [] name = "add_to_list" -> IsSome(args.list_uri) /\ IsSome(args.did)
    [] name = "remove_from_list" -> IsSome(args.listitem_uri)
    [] name = "create_list" ->
         /\ IsSome(args.name) /\ IsSome(args.description)
         /\ IsSome(args.purpose) /\ Get(args.purpose) \in Purposes
    [] OTHER -> TRUE

\* -------------------------------------------------------------- envelopes

\* The three results of the call-tool handler.  `text` is the text content
\* in its parts; a success carries JSON.stringify(result), kept as the
\* result object it encodes.
UnknownToolEnvelope(toolName) ==
  [isError |-> TRUE, text |-> <<"Unknown tool: ", toolName>>, result |-> None]

ErrorEnvelope_noMessage(toolName, errorMessage) ==
  [isError |-> TRUE, text |-> <<"Error executing ", toolName>>, result |-> None]

ErrorEnvelope(toolName, errorMessage) ==
  [isError |-> TRUE, text |-> <<"Error executing ", toolName, ": ", errorMessage>>,
   result |-> None]

SuccessEnvelope(result) == [isError |-> FALSE, text |-> <<>>, result |-> Some(result)]

\* ------------------------------------------------------------------ calls

EmptyRecord == [text |-> NoText, reply |-> None, embed |-> None]

\* One call-tool request: the name asked for, the handler of the descriptor
\* found under it (tool), the dispatcher's and the handler's locals
\* (results, previousPost, i, wakeAt: create_thread; text .. uploaded:
\* BlueskyClient.post), the requests it has issued upstream (log), the
\* answer to the request of a one-request handler (received), the Error it
\* raised (thrown), the number of changes it made upstream
\* (effects) and the envelope it returned (env).
IdleCall ==
  [pc |-> "idle", name |-> "", tool |-> "", args |-> EmptyArgs, env |-> None, thrown |-> None,
   received |-> None, effects |-> 0, log |-> <<>>, results |-> <<>>, previousPost |-> None, i |-> 0,
   wakeAt |-> 0, text |-> NoText, replyTo |-> None, images |-> None,
   record |-> EmptyRecord, pending |-> {}, uploaded |-> <<>>]

\* An upstream request, with the time it was issued.
Request(op, at, detail) == [op |-> op, at |-> at, detail |-> detail]

\* The catch block of the call-tool handler: the Error becomes an envelope.
raise(k, msg) ==
  [k EXCEPT !.pc = "done", !.thrown = Some(msg),
            !.env = Some(ErrorEnvelope(k.name, msg))]

\* The success return of the call-tool handler.
succeed(k, result) == [k EXCEPT !.pc = "done", !.env = Some(SuccessEnvelope(result))]

\* An awaited adapter call rejects inside a handler, as it would in a
\* create_thread that deleted the posts it had created before giving up.
handler_rejected_rollback(k, msg) ==
  raise([k EXCEPT !.log = @ \o [j \in 1..Len(k.results) |->
                            Request("deleteRecord", k.log[Len(k.log)].at,
                                    [repo |-> Some(k.results[j].uri[3]),
                                     rkey |-> k.results[j].uri[5]])]], msg)

\* An awaited adapter call rejects inside a handler, as it would under an
\* adapter that issued the rejected request a second time before giving up.
handler_rejected_retry(k, msg) ==
  raise([k EXCEPT !.log = Append(@, k.log[Len(k.log)])], msg)

\* An awaited adapter call rejects inside a handler: no handler catches, so
\* the Error leaves the handler and reaches the dispatcher's catch block.
handler_rejected(k, msg) == raise(k, msg)

\* ----------------------------------------------------- BlueskyClient.post

\* agent.post(record) is issued.
post_submit(k, t) ==
  [k EXCEPT !.pc = "submitting", !.log = Append(@, Request("createRecord", t, k.record))]

\* The images branch: every upload is issued at once (Promise.all over
\* images.map), each with img.encoding || 'image/jpeg'; without images the
\* record is submitted.
post_images(k, t) ==
  IF IsSome(k.images) /\ Len(Get(k.images)) > 0
  THEN LET imgs == Get(k.images)
       IN [k EXCEPT !.pc = "uploading",
                    !.pending = 1..Len(imgs),
                    !.uploaded = [j \in 1..Len(imgs) |-> None],
                    !.log = @ \o [j \in 1..Len(imgs) |->
                              Request("uploadBlob", t,
                                [index |-> j,
                                 encoding |-> IF IsSome(imgs[j].encoding)
                                              THEN Get(imgs[j].encoding)
                                              ELSE "image/jpeg"])]]
  ELSE post_submit(k, t)

\* client.post(text, options) up to its first upstream request: with
\* replyTo the parent record is fetched by the repo and the record key
\* taken from the uri.  The texts hold no mention, so detectFacets resolves
\* no handle upstream and rt.text is the text.
post(k, text, replyTo, images, t) ==
  LET k1 == [k EXCEPT !.text = text, !.replyTo = replyTo, !.images = images,
                      !.record = [text |-> text, reply |-> None, embed |-> None],
                      !.pending = {}, !.uploaded = <<>>]
  IN IF IsSome(replyTo)
     THEN [k1 EXCEPT !.pc = "fetching",
                     !.log = Append(@, Request("getPost", t,
                                [repo |-> RepoOf(Get(replyTo).uri),
                                 rkey |-> RkeyOf(Get(replyTo).uri)]))]
     ELSE post_images(k1, t)

\* The root of a reply, as the first revision of the client set it: the
\* parent itself, whatever the parent is.
replyRoot_parentAlways(parentRecord, replyTo) == Ref(replyTo.uri, replyTo.cid)

\* parentRecord.reply?.root || { uri: replyTo.uri, cid: replyTo.cid }
replyRoot(parentRecord, replyTo) ==
  IF IsSome(parentRecord.reply)
  THEN Get(parentRecord.reply).root
  ELSE Ref(replyTo.uri, replyTo.cid)

\* The parent record has arrived, for a client that takes the parent's cid
\* from the record it fetched instead of from replyTo.
post_afterGetPost_fetchedCid(k, parentRecord, t) ==
  LET replyTo == Get(k.replyTo)
      fetched == Ref(replyTo.uri, CidOf(RkeyOf(replyTo.uri)))
      reply == [root |-> replyRoot(parentRecord, fetched), parent |-> fetched]
  IN post_images([k EXCEPT !.record.reply = Some(reply)], t)

\* The parent record has arrived: record.reply is set, then the images
\* branch runs.
post_afterGetPost(k, parentRecord, t) ==
  LET replyTo == Get(k.replyTo)
      reply == [root |-> replyRoot(parentRecord, replyTo),
                parent |-> Ref(replyTo.uri, replyTo.cid)]
  IN post_images([k EXCEPT !.record.reply = Some(reply)], t)

\* Promise.all has resolved: record.embed lists { alt: img.alt || '', image }
\* in the order of options.images, and the record is submitted.
post_afterUploads(k, t) ==
  LET imgs == Get(k.images)
      embed == [type |-> "app.bsky.embed.images",
                images |-> [j \in 1..Len(imgs) |->
                              [alt |-> IF IsSome(imgs[j].alt) THEN Get(imgs[j].alt) ELSE "",
                               image |-> Get(k.uploaded[j])]]]
  IN post_submit([k EXCEPT !.record.embed = Some(embed)], t)

\* One upload resolved, for a client that pushes each blob to the list as
\* it arrives, in the order of completion.
uploadResolved_completionOrder(k, j, blob, t) ==
  LET free == CHOOSE i \in 1..Len(k.uploaded) :
                /\ ~IsSome(k.uploaded[i])
                /\ \A h \in 1..(i - 1) : IsSome(k.uploaded[h])
      k1 == [k EXCEPT !.pending = @ \ {j}, !.uploaded[free] = Some(blob),
                      !.effects = @ + 1]
  IN IF k1.pending = {} THEN post_afterUploads(k1, t) ELSE k1

\* One upload of Promise.all resolved with its blob: the last one resolves
\* Promise.all.
uploadResolved(k, j, blob, t) ==
  LET k1 == [k EXCEPT !.pending = @ \ {j}, !.uploaded[j] = Some(blob),
                      !.effects = @ + 1]
  IN IF k1.pending = {} THEN post_afterUploads(k1, t) ELSE k1

\* One upload rejected, for a client that swallows the Error and posts the
\* record without its images.
uploadRejected_skipped(k, j, msg, t) == post_submit([k EXCEPT !.pending = {}], t)

\* One upload rejected: Promise.all rejects at once with that Error, and
\* client.post throws it.
uploadRejected(k, j, msg, t) == handler_rejected([k EXCEPT !.pending = {}], msg)

\* The PostResult of client.post and client.quotePost.
PostResult(uri, cid) ==
  [uri |-> uri, cid |-> cid,
   url |-> <<"https://bsky.app/profile/", MyHandle, "/post/", RkeyOf(uri)>>]

\* client.quotePost(text, quoteUri, quoteCid) up to agent.post.
quotePost(k, text, quoteUri, quoteCid, t) ==
  post_submit([k EXCEPT !.text = text,
                        !.record = [text |-> text, reply |-> None,
                                    embed |-> Some([type |-> "app.bsky.embed.record",
                                                    record |-> Ref(quoteUri, quoteCid)])]], t)

\* ----------------------------------------------------------- thread views

ThreadViewPost == "app.bsky.feed.defs#threadViewPost"
NotFoundPost == "app.bsky.feed.defs#notFoundPost"
BlockedPost == "app.bsky.feed.defs#blockedPost"

\* The shapes of the thread views of n nodes: a not-found or a blocked
\* node is a leaf, a post has no replies property or a list of replies.
RECURSIVE TreesOf(_), ForestsOf(_)
TreesOf(n) ==
  (IF n = 1
   THEN {[type |-> ty, replies |-> None] : ty \in {ThreadViewPost, NotFoundPost, BlockedPost}}
   ELSE {})
    \cup {[type |-> ThreadViewPost, replies |-> Some(f)] : f \in ForestsOf(n - 1)}

ForestsOf(n) ==
  IF n = 0 THEN {<<>>}
  ELSE UNION {{<<t>> \o f : t \in TreesOf(m), f \in ForestsOf(n - m)} : m \in 1..n}

\* The thread view of a shape: a post carries its uri, whose record key is
\* the node's position in the thread, and its text.
RECURSIVE ThreadView(_, _)
ThreadView(shape, path) ==
  [type |-> shape.type,
   post |-> IF shape.type = ThreadViewPost
            THEN Some([uri |-> AtUri(OtherDid, PostCollection, path), cid |-> CidOf(path),
                       text |-> Text(100 + Len(path), 20)])
            ELSE None,
   replies |-> IF IsSome(shape.replies)
               THEN Some([i \in 1..Len(Get(shape.replies)) |->
                            ThreadView(Get(shape.replies)[i], Append(path, i))])
               ELSE None]

\* The thread views agent.getPostThread may resolve with.
ThreadViews == {ThreadView(sh, <<1>>) : sh \in UNION {TreesOf(n) : n \in 1..MaxThreadNodes}}

\* A response without a thread: threadData is undefined.
AbsentThread == [type |-> "undefined", post |-> None, replies |-> None]

\* Whether the view holds a node of one type.
RECURSIVE HasNode(_, _)
HasNode(threadData, type) ==
  \/ threadData.type = type
  \/ /\ IsSome(threadData.replies)
     /\ \E i \in 1..Len(Get(threadData.replies)) : HasNode(Get(threadData.replies)[i], type)

ErrReadUri == "Cannot read properties of undefined (reading 'uri')"

\* formatThread of get_post_thread, for a handler whose map stops at the
\* first reply that is not found.
RECURSIVE formatThread_stopAtNotFound(_)
formatThread_stopAtNotFound(threadData) ==
  IF threadData = AbsentThread \/ threadData.type = NotFoundPost THEN None
  ELSE LET replies == IF IsSome(threadData.replies) THEN Get(threadData.replies) ELSE <<>>
           stop == IF \E i \in 1..Len(replies) : replies[i].type = NotFoundPost
                   THEN (CHOOSE i \in 1..Len(replies) :
                           /\ replies[i].type = NotFoundPost
                           /\ \A j \in 1..(i - 1) : replies[j].type # NotFoundPost) - 1
                   ELSE Len(replies)
       IN Some([uri |-> Get(threadData.post).uri, cid |-> Get(threadData.post).cid,
                text |-> Get(threadData.post).text,
                replies |-> [i \in 1..stop |-> Get(formatThread_stopAtNotFound(replies[i]))]])

\* formatThread of get_post_thread: null for no node and for a not-found
\* node (!threadData || threadData.$type === '...#notFoundPost'), else the
\* node's fields with replies?.map(formatThread).filter(Boolean) || [].
\* The view holds no blocked node (see formatThreadThrows).
RECURSIVE formatThread(_)
formatThread(threadData) ==
  IF threadData = AbsentThread \/ threadData.type = NotFoundPost THEN None
  ELSE LET mapped == IF IsSome(threadData.replies)
                     THEN [i \in 1..Len(Get(threadData.replies)) |->
                             formatThread(Get(threadData.replies)[i])]
                     ELSE <<>>
           filtered == SelectSeq(mapped, IsSome)
       IN Some([uri |-> Get(threadData.post).uri, cid |-> Get(threadData.post).cid,
                text |-> Get(threadData.post).text,
                replies |-> [i \in 1..Len(filtered) |-> Get(filtered[i])]])

\* A blocked node has no post property: threadData.post.uri throws a
\* TypeError, wherever the node is (map visits every reply).
formatThreadThrows(threadData) == HasNode(threadData, BlockedPost)

\* --------------------------------------------------------------- handlers

\* postingTools.post.handler up to its first upstream request.
post_handler(k, t) ==
  LET processedImages == IF IsSome(k.args.images) THEN loadImages(Get(k.args.images))
                         ELSE Ok(<<>>)
  IN IF ~processedImages.ok THEN raise(k, processedImages.error)
     ELSE post(k, Get(k.args.text), None,
               IF IsSome(k.args.images) THEN processedImages.value ELSE None, t)

\* postingTools.reply.handler up to its first upstream request.
reply_handler(k, t) ==
  post(k, Get(k.args.text), Some(Ref(Get(k.args.uri), Get(k.args.cid))), None, t)

\* postingTools.quote_post.handler up to its first upstream request.
quote_post_handler(k, t) ==
  quotePost(k, Get(k.args.text), Get(k.args.uri), Get(k.args.cid), t)

\* The return statement of create_thread: results[0].url throws when no
\* post was created.
thread_return(k) ==
  IF Len(k.results) = 0 THEN raise(k, ErrReadUrl)
  ELSE succeed(k, [success |-> TRUE, thread |-> k.results, count |-> Len(k.results),
                   first_post_url |-> k.results[1].url])

\* The head of the loop for a create_thread that does not await
\* client.post: the create for the text after the next one is issued with
\* it.
thread_next_eager(k, t) ==
  IF k.i < Len(Get(k.args.posts))
  THEN LET k1 == post([k EXCEPT !.i = k.i + 1], Get(k.args.posts)[k.i + 1],
                      k.previousPost, None, t)
       IN [k1 EXCEPT !.log = Append(@, Request("createRecord", t, k1.record))]
  ELSE thread_return(k)

\* The head of create_thread's for loop: the next text is posted as a reply
\* to previousPost, or the loop ends.
thread_next(k, t) ==
  IF k.i < Len(Get(k.args.posts))
  THEN post([k EXCEPT !.i = k.i + 1], Get(k.args.posts)[k.i + 1], k.previousPost, None, t)
  ELSE thread_return(k)

\* The body of create_thread's loop after client.post returned, for the
\* handler that starts no timer.
thread_afterPost_noDelay(k, result, t) ==
  thread_next([k EXCEPT !.results = Append(@, result),
                        !.previousPost = Some(Ref(result.uri, result.cid))], t)

\* The body of create_thread's loop after client.post returned, for the
\* handler that sets previousPost once: every later post replies to the
\* first.
thread_afterPost_replyToFirst(k, result, t) ==
  [k EXCEPT !.results = Append(@, result),
            !.previousPost = IF IsSome(@) THEN @ ELSE Some(Ref(result.uri, result.cid)),
            !.pc = "sleeping",
            !.wakeAt = t + PacingDelayMs,
            !.log = Append(@, Request("setTimeout", t, [ms |-> PacingDelayMs]))]

\* The body of create_thread's loop after client.post returned, for the
\* handler that waits between posts only: after the last post it returns.
thread_afterPost_skipLastDelay(k, result, t) ==
  LET k1 == [k EXCEPT !.results = Append(@, result),
                      !.previousPost = Some(Ref(result.uri, result.cid))]
  IN IF k.i >= Len(Get(k.args.posts)) THEN thread_return(k1)
     ELSE [k1 EXCEPT !.pc = "sleeping",
                     !.wakeAt = t + PacingDelayMs,
                     !.log = Append(@, Request("setTimeout", t, [ms |-> PacingDelayMs]))]

\* The body of create_thread's loop after client.post returned: the result
\* is pushed, previousPost is set and the 1000 ms timer is started.
thread_afterPost(k, result, t) ==
  [k EXCEPT !.results = Append(@, result),
            !.previousPost = Some(Ref(result.uri, result.cid)),
            !.pc = "sleeping",
            !.wakeAt = t + PacingDelayMs,
            !.log = Append(@, Request("setTimeout", t, [ms |-> PacingDelayMs]))]

\* postingTools.create_thread.handler up to its first upstream request.
create_thread_handler(k, t) ==
  IF ~IsSome(k.args.posts) THEN raise(k, ErrNotIterable)
  ELSE thread_next([k EXCEPT !.results = <<>>, !.previousPost = None, !.i = 0], t)

\* A handler that makes one adapter call: the request it issues.
simple_handler(k, op, detail, t) ==
  [k EXCEPT !.pc = "requesting", !.log = Append(@, Request(op, t, detail))]

\* feedTools.get_post_thread.handler and client.getPostThread.
get_post_thread_handler(k, t) ==
  simple_handler(k, "getPostThread", [uri |-> Get(k.args.uri)], t)

\* get_post_thread after client.getPostThread returned, for a handler that
\* throws when there is no thread to return.
get_post_thread_return_throwOnNull(k, thread) ==
  LET k1 == [k EXCEPT !.received = Some(thread)]
  IN IF formatThreadThrows(thread) THEN raise(k1, ErrReadUri)
     ELSE IF formatThread(thread) = None THEN raise(k1, "Post not found")
     ELSE succeed(k1, [thread |-> formatThread(thread),
                       message |-> "Thread retrieved successfully"])

\* get_post_thread after client.getPostThread returned the thread view.
get_post_thread_return(k, thread) ==
  LET k1 == [k EXCEPT !.received = Some(thread)]
  IN IF formatThreadThrows(thread) THEN raise(k1, ErrReadUri)
     ELSE succeed(k1, [thread |-> formatThread(thread),
                       message |-> "Thread retrieved successfully"])

\* postingTools.delete_post.handler and client.deletePost.
delete_post_handler(k, t) ==
  simple_handler(k, "deleteRecord",
                 [repo |-> RepoOf(Get(k.args.uri)), rkey |-> RkeyOf(Get(k.args.uri))], t)

\* feedTools.get_timeline.handler and client.getTimeline: args.limit || 50.
get_timeline_handler(k, t) ==
  simple_handler(k, "getTimeline",
                 [limit |-> IF IsSome(k.args.limit) /\ Get(k.args.limit) # 0
                            THEN Get(k.args.limit) ELSE DefaultTimelineLimit], t)

\* searchTools.create_list.handler and client.createList.
create_list_handler(k, t) ==
  simple_handler(k, "createList",
                 [name |-> Get(k.args.name), description |-> Get(k.args.description),
                  purpose |-> <<"app.bsky.graph.defs#", Get(k.args.purpose)>>], t)

\* args.limit || dflt: 0 is falsy.
limitOr(args, dflt) == IF IsSome(args.limit) /\ Get(args.limit) # 0 THEN Get(args.limit) ELSE dflt

\* handle || this.handle
handleOr(args) ==
  IF IsSome(args.handle) /\ Get(args.handle) # "" THEN Get(args.handle) ELSE MyHandle

\* The handlers that list: the adapter call they make, with its subject and
\* args.limit || default.
listing_handler(k, op, subject, dflt, t) ==
  simple_handler(k, op, [subject |-> subject, limit |-> limitOr(k.args, dflt)], t)

\* feedTools.get_author_feed.handler and client.getAuthorFeed.
get_author_feed_handler(k, t) ==
  listing_handler(k, "getAuthorFeed", Get(k.args.handle), DefaultAuthorFeedLimit, t)

\* searchTools.search_posts.handler and client.searchPosts.
search_posts_handler(k, t) ==
  listing_handler(k, "searchPosts", Get(k.args.query), DefaultSearchLimit, t)

\* The posts of a feed as the feed handlers return them, with their count.
feed_return(k, feed) ==
  succeed([k EXCEPT !.received = Some(feed)],
          [posts |-> [n \in 1..Len(feed) |-> RefOf(feed[n])], count |-> Len(feed)])

\* The entries of a listing as its handler returns them, with their count.
page_return(k, items) ==
  succeed([k EXCEPT !.received = Some(items)], [results |-> items, count |-> Len(items)])

\* searchTools.get_profile.handler and client.getProfile.
get_profile_handler(k, t) == simple_handler(k, "getProfile", [actor |-> handleOr(k.args)], t)

\* The handlers that create a record about a subject (like_post, repost,
\* follow, add_to_list) and the adapter calls they make.
like_post_handler(k, t) ==
  simple_handler(k, "like", [subject |-> Ref(Get(k.args.uri), Get(k.args.cid))], t)

repost_handler(k, t) ==
  simple_handler(k, "repost", [subject |-> Ref(Get(k.args.uri), Get(k.args.cid))], t)

follow_handler(k, t) == simple_handler(k, "follow", [subject |-> Get(k.args.did)], t)

add_to_list_handler(k, t) ==
  simple_handler(k, "createListItem",
                 [subject |-> [list |-> Get(k.args.list_uri), subject |-> Get(k.args.did)]], t)

\* The result of a handler that created a record: the record's uri under
\* the handler's own key.
created_return(k, uri) ==
  LET k1 == [k EXCEPT !.effects = @ + 1]
  IN CASE k.tool = "like_post" -> succeed(k1, [success |-> TRUE, like_uri |-> uri])
       [] k.tool = "repost" -> succeed(k1, [success |-> TRUE, repost_uri |-> uri])
       [] k.tool = "follow" -> succeed(k1, [success |-> TRUE, follow_uri |-> uri])
       [] k.tool = "add_to_list" -> succeed(k1, [success |-> TRUE, listitem_uri |-> uri])

\* unlike_post, delete_repost and unfollow: client.deleteLike(uri) and its
\* siblings pass the uri to the agent, which deletes the record of the
\* method's collection in the repo and under the record key the uri names.
delete_by_uri_handler(k, op, uri, t) ==
  simple_handler(k, op, [repo |-> RepoOf(uri), rkey |-> RkeyOf(uri)], t)

\* remove_from_list for a client that deletes in the repo the uri names, as
\* deleteLike and its siblings do.
remove_from_list_handler_byUri(k, t) ==
  delete_by_uri_handler(k, "deleteListItem", Get(k.args.listitem_uri), t)

\* searchTools.remove_from_list.handler and client.removeFromList: the
\* record key is the last segment of the uri, the repo is the session's.
remove_from_list_handler(k, t) ==
  simple_handler(k, "deleteListItem",
                 [repo |-> Some(MyDid), rkey |-> RkeyOf(Get(k.args.listitem_uri))], t)

\* searchTools.update_profile.handler and client.updateProfile(args).
update_profile_handler(k, t) ==
  simple_handler(k, "upsertProfile",
                 [displayName |-> k.args.displayName, description |-> k.args.description], t)

\* The return statement of update_profile: a flag is true when the argument
\* is truthy, which an empty string is not.
update_profile_return(k) ==
  succeed(k, [success |-> TRUE,
              updated |-> [displayName |-> IsSome(k.args.displayName)
                                             /\ Get(k.args.displayName) # "",
                           description |-> IsSome(k.args.description)
                                             /\ Get(k.args.description) # ""],
              message |-> "Profile updated successfully"])

\* detectImageEncoding of tools/search.ts.
detectAvatarEncoding(pathOrData) ==
  IF endsWith(toLowerCase(pathOrData), SuffixPng) \/ startsWith(pathOrData, PrefixPng)
  THEN "image/png" ELSE "image/jpeg"

ErrAvatarNoPathOrData == "Must provide either \"path\" or \"data\" for the avatar image"

\* client.updateAvatar(imageData, encoding) up to agent.uploadBlob.
updateAvatar(k, imageData, encoding, t) ==
  [k EXCEPT !.pc = "avatarUploading",
            !.images = Some(<<[data |-> imageData, alt |-> None, encoding |-> Some(encoding)]>>),
            !.log = Append(@, Request("uploadBlob", t, [index |-> 1, encoding |-> encoding]))]

\* update_avatar for a handler that uploads whatever it was given and
\* checks nothing first.
update_avatar_handler_uploadFirst(k, t) ==
  IF Truthy(k.args.path) /\ Get(k.args.path) \in DOMAIN FileSystem
  THEN updateAvatar(k, FileSystem[Get(k.args.path)], detectAvatarEncoding(Get(k.args.path)), t)
  ELSE updateAvatar(k, <<>>, "image/jpeg", t)

\* searchTools.update_avatar.handler up to its first upstream request.
update_avatar_handler(k, t) ==
  IF Truthy(k.args.path)
  THEN IF Get(k.args.path) \in DOMAIN FileSystem
       THEN updateAvatar(k, FileSystem[Get(k.args.path)],
                         detectAvatarEncoding(Get(k.args.path)), t)
       ELSE raise(k, ErrNoEnt)
  ELSE IF Truthy(k.args.data)
  THEN IF base64Throws(Get(k.args.data)) THEN raise(k, ErrAtob)
       ELSE updateAvatar(k, base64ToUint8Array(Get(k.args.data)),
                         detectAvatarEncoding(Get(k.args.data)), t)
  ELSE raise(k, ErrAvatarNoPathOrData)

\* client.updateAvatar after agent.uploadBlob returned the blob:
\* agent.upsertProfile is called.
updateAvatar_afterUpload(k, blob, t) ==
  [k EXCEPT !.pc = "requesting", !.uploaded = <<Some(blob)>>, !.effects = @ + 1,
            !.log = Append(@, Request("upsertProfile", t, [avatar |-> blob]))]

\* tool.handler(args, client): the handler of the descriptor that was
\* looked up (k.tool).
handler(k, t) ==
  CASE k.tool = "post" -> post_handler(k, t)
    [] k.tool = "reply" -> reply_handler(k, t)
    [] k.tool = "quote_post" -> quote_post_handler(k, t)
    [] k.tool = "create_thread" -> create_thread_handler(k, t)
    [] k.tool = "delete_post" -> delete_post_handler(k, t)
    [] k.tool = "get_timeline" -> get_timeline_handler(k, t)
    [] k.tool = "create_list" -> create_list_handler(k, t)
    [] k.tool = "get_post_thread" -> get_post_thread_handler(k, t)
    [] k.tool = "get_author_feed" -> get_author_feed_handler(k, t)
    [] k.tool = "search_posts" -> search_posts_handler(k, t)
    [] k.tool = "get_profile" -> get_profile_handler(k, t)
    [] k.tool = "get_followers" ->
         listing_handler(k, "getFollowers", handleOr(k.args), DefaultPageLimit, t)
    [] k.tool = "get_following" ->
         listing_handler(k, "getFollows", handleOr(k.args), DefaultPageLimit, t)
    [] k.tool = "get_notifications" ->
         listing_handler(k, "listNotifications", MyHandle, DefaultPageLimit, t)
    [] k.tool = "get_suggested_follows" ->
         listing_handler(k, "getSuggestions", MyHandle, DefaultSuggestionsLimit, t)
    [] k.tool = "get_lists" ->
         listing_handler(k, "getLists", handleOr(k.args), DefaultPageLimit, t)
    [] k.tool = "get_list" ->
         listing_handler(k, "getList", Get(k.args.uri), DefaultPageLimit, t)
    [] k.tool = "get_post_likes" ->
         listing_handler(k, "getLikes", Get(k.args.uri), DefaultPageLimit, t)
    [] k.tool = "get_post_reposts" ->
         listing_handler(k, "getRepostedBy", Get(k.args.uri), DefaultPageLimit, t)
    [] k.tool = "like_post" -> like_post_handler(k, t)
    [] k.tool = "repost" -> repost_handler(k, t)
    [] k.tool = "follow" -> follow_handler(k, t)
    [] k.tool = "add_to_list" -> add_to_list_handler(k, t)
    [] k.tool = "unlike_post" -> delete_by_uri_handler(k, "deleteLike", Get(k.args.like_uri), t)
    [] k.tool = "delete_repost" ->
         delete_by_uri_handler(k, "deleteRepost", Get(k.args.repost_uri), t)
    [] k.tool = "unfollow" ->
         delete_by_uri_handler(k, "deleteFollow", Get(k.args.follow_uri), t)
    [] k.tool = "remove_from_list" -> remove_from_list_handler(k, t)
    [] k.tool = "update_profile" -> update_profile_handler(k, t)
    [] k.tool = "update_avatar" -> update_avatar_handler(k, t)

\* The call-tool request handler up to the handler's first upstream
\* request.
dispatch(k, t) ==
  LET tool == Lookup(k.name)
  IN IF tool.kind = "undefined"
     THEN [k EXCEPT !.pc = "done", !.env = Some(UnknownToolEnvelope(k.name))]
     ELSE IF tool.kind = "inherited" THEN raise(k, ErrNotAFunction)
     ELSE handler([k EXCEPT !.tool = Get(tool.tool).handler], t)

\* The handler's continuation when client.post has returned its result.
afterPost(k, result, t) ==
  IF k.tool = "create_thread" THEN thread_afterPost(k, result, t)
  ELSE succeed(k, [success |-> TRUE, uri |-> result.uri, cid |-> result.cid,
                   url |-> result.url])

\* --------------------------------------------------------------- upstream

\* The messages of the Errors the upstream client raises.
UpstreamErrors == {"fetch failed", "Rate Limit Exceeded"}

\* The record validation of the upstream (the post lexicon): a text of at
\* most 300 characters and at most 4 embedded images.
LexiconValid(record) ==
  /\ record.text.len <= MaxTextLength
  /\ (IsSome(record.embed) /\ Get(record.embed).type = "app.bsky.embed.images")
       => Len(Get(record.embed).images) <= MaxImageItems

\* The posts on the network when the server starts: a top-level post of
\* another account and a reply to it.
InitialPosts ==
  LET top == [repo |-> OtherDid, rkey |-> RecordKeys[1],
              value |-> [text |-> Text(101, 20), reply |-> None, embed |-> None],
              deleted |-> FALSE]
  IN <<top,
       [repo |-> OtherDid, rkey |-> RecordKeys[2],
        value |-> [text |-> Text(102, 20),
                   reply |-> Some([root |-> RefOf(top), parent |-> RefOf(top)]),
                   embed |-> None],
        deleted |-> FALSE]>>

\* A post of the account itself, older than the server's start.
MyOldPost ==
  [repo |-> MyDid, rkey |-> RecordKeys[3],
   value |-> [text |-> Text(103, 20), reply |-> None, embed |-> None],
   deleted |-> FALSE]

\* The states of the network the server may start against.
InitialNetworks ==
  {InitialPosts, Append(InitialPosts, MyOldPost),
   Append(InitialPosts, [MyOldPost EXCEPT !.deleted = TRUE])}

\* A reference to a post that does not exist.
MissingRef == Ref(AtUri(OtherDid, PostCollection, "3zzz"), CidOf("3zzz"))

\* The accounts a listing of the upstream may hold.
Actors == <<OtherDid, "did:plc:carol">>

\* The did an actor's handle resolves to.
DidOf(actor) == IF actor = MyHandle THEN MyDid ELSE OtherDid

\* A like, repost, follow or list-item record of the account.
RecordUri(r) == AtUri(MyDid, r.collection, r.rkey)

\* The collection each agent method writes to or deletes from.
CollectionOf(op) ==
  CASE op \in {"like", "deleteLike"} -> LikeCollection
    [] op \in {"repost", "deleteRepost"} -> RepostCollection
    [] op \in {"follow", "deleteFollow"} -> FollowCollection
    [] op \in {"createListItem", "deleteListItem"} -> ListItemCollection

FeedOps == {"getTimeline", "getAuthorFeed", "searchPosts"}
PageOps ==
  {"getFollowers", "getFollows", "listNotifications", "getSuggestions", "getLists",
   "getList", "getLikes", "getRepostedBy"}
CreateOps == {"like", "repost", "follow", "createListItem"}
DeleteOps == {"deleteLike", "deleteRepost", "deleteFollow", "deleteListItem"}

\* ---------------------------------------------------------------- profile

\* The profile record: its fields, each present or absent.  An account
\* without a profile record has every field absent.
NoProfile == [displayName |-> None, description |-> None, avatar |-> None, banner |-> None]

OldBlob(ref) == [ref |-> ref, mimeType |-> "image/png", size |-> 8]

OldProfile ==
  [displayName |-> Some("Me"), description |-> Some("old bio"),
   avatar |-> Some(OldBlob("avatar")), banner |-> Some(OldBlob("banner"))]

InitialProfiles == {NoProfile, OldProfile}

\* The update function of updateProfile, for a client that writes the
\* given fields over the record (no `??`).
updateProfile_overwrite(existing, updates) ==
  [existing EXCEPT !.displayName = updates.displayName,
                   !.description = updates.description]

\* The update function client.updateProfile gives to agent.upsertProfile:
\* { ...existing, displayName: updates.displayName ?? existing?.displayName,
\*   description: updates.description ?? existing?.description }
updateProfile_merge(existing, updates) ==
  [existing EXCEPT !.displayName = IF IsSome(updates.displayName) THEN updates.displayName
                                   ELSE existing.displayName,
                   !.description = IF IsSome(updates.description) THEN updates.description
                                   ELSE existing.description]

\* The update function of updateAvatar, for a client that writes a record
\* of the avatar alone (no spread of the existing record).
updateAvatar_replace(existing, blob) == [NoProfile EXCEPT !.avatar = Some(blob)]

\* The update function of client.updateAvatar: { ...existing, avatar: blob }
updateAvatar_merge(existing, blob) == [existing EXCEPT !.avatar = Some(blob)]

\* ---------------------------------------------------------------- process

\* The app password the upstream accepts for the account.
AppPassword == "app-password"

\* process.env: the variables the code and the README name.
Env(handle, appPassword, password) ==
  [BLUESKY_HANDLE |-> handle, BLUESKY_APP_PASSWORD |-> appPassword,
   BLUESKY_PASSWORD |-> password]

\* Truthiness of an environment variable: unset and "" are falsy.
EnvSet(o) == IsSome(o) /\ Get(o) # ""

\* The process when it is started: nothing checked, no session, no tool
\* registered.
StartingProcess(env) ==
  [env |-> env, phase |-> "starting", exitCode |-> None, logins |-> 0, session |-> None,
   tools |-> <<>>]

\* The top of index.ts, for a server that logs in before it checks its
\* environment.
startup_loginFirst(p) == [p EXCEPT !.phase = "loggingIn", !.logins = @ + 1]

\* The top of index.ts: without BLUESKY_HANDLE or BLUESKY_APP_PASSWORD the
\* process exits with status 1; else the client is built and
\* client.login(BLUESKY_APP_PASSWORD) is awaited.
startup(p) ==
  IF ~EnvSet(p.env.BLUESKY_HANDLE) \/ ~EnvSet(p.env.BLUESKY_APP_PASSWORD)
  THEN [p EXCEPT !.phase = "exited", !.exitCode = Some(1)]
  ELSE [p EXCEPT !.phase = "loggingIn", !.logins = @ + 1]

\* Login has resolved: the registry is built, the request handlers are set
\* and runServer connects the transport.
login_resolved(p) ==
  [p EXCEPT !.phase = "serving", !.session = Some(MyDid), !.tools = allTools]

\* Login has rejected: the top-level await throws and the process ends
\* with status 1.
login_rejected(p) == [p EXCEPT !.phase = "exited", !.exitCode = Some(1)]

\* The process of a server that has started with its credentials.
ServingProcess ==
  login_resolved(startup(StartingProcess(Env(Some(MyHandle), Some(AppPassword), None))))

\* The list-tools handler: one entry per entry of the registry.
ListToolsResult(tools) ==
  {[name |-> n, description |-> <<tools[n].group, tools[n].handler, "description">>,
    inputSchema |-> <<tools[n].group, tools[n].handler, "inputSchema">>] : n \in DOMAIN tools}

\* ------------------------------------------------------------------ state

VARIABLES
  calls,     \* the call-tool requests, by the host's call slot
  responses, \* the outcome of every envelope returned to the host, in order
  posts,     \* the post records of the upstream, in order of creation
  blobs,     \* the number of blobs the upstream has stored
  orphans,   \* uploads still in flight whose call has already ended
  lists,     \* the list records of the upstream
  now,       \* the clock, in milliseconds
  served,    \* the number of call-tool requests received
  records,   \* the like, repost, follow and list-item records of the upstream
  profile,   \* the profile record of the account
  process,   \* the server process: its environment, its phase, its session
  listed     \* the answers to the list-tools requests, in order

vars ==
  <<calls, responses, posts, blobs, orphans, lists, now, served, records, profile,
    process, listed>>

\* The call slots of the transport, and those the host uses: it sends one
\* call at a time.
AllCalls == {"c1", "c2"}
HostCalls == {"c1"}

Init ==
  /\ calls = [c \in AllCalls |-> IdleCall]
  /\ responses = <<>>
  /\ posts \in InitialNetworks
  /\ blobs = 0
  /\ orphans = 0
  /\ lists = <<>>
  /\ now = 0
  /\ served = 0
  /\ records = <<>>
  /\ profile \in InitialProfiles
  /\ process = ServingProcess
  /\ listed = <<>>

LastRequest(k) == k.log[Len(k.log)]

\* The transport writes the envelope of a call that has just ended.
Respond(c) ==
  responses' = IF calls'[c].pc = "done"
               THEN Append(responses, [name |-> calls'[c].name,
                                       isError |-> Get(calls'[c].env).isError])
               ELSE responses

\* ---------------------------------------------------------------- actions

\* A call-tool request arrives and runs to its first upstream request.
Receive(c, name, args) ==
  /\ process.phase = "serving"
  /\ calls' = [calls EXCEPT ![c] = dispatch([IdleCall EXCEPT !.name = name, !.args = args], now)]
  /\ served' = served + 1
  /\ Respond(c)
  /\ UNCHANGED <<posts, blobs, orphans, lists, now, records, profile, process, listed>>

\* The first call-tool request on a call slot.
CallTool(c, name, args) ==
  /\ calls[c].pc = "idle"
  /\ Receive(c, name, args)

\* A further call-tool request on a call slot whose call has ended.
NextCall(c, name, args) ==
  /\ calls[c].pc = "done"
  /\ served < MaxCalls
  /\ Receive(c, name, args)

\* agent.getPost resolves with the stored record.
GetPostResolves(c) ==
  /\ calls[c].pc = "fetching"
  /\ \E n \in 1..Len(posts) :
       /\ Some(posts[n].repo) = LastRequest(calls[c]).detail.repo
       /\ posts[n].rkey = LastRequest(calls[c]).detail.rkey
       /\ ~posts[n].deleted
       /\ calls' = [calls EXCEPT ![c] = post_afterGetPost(@, posts[n].value, now)]
  /\ Respond(c)
  /\ UNCHANGED <<posts, blobs, orphans, lists, now, served, records, profile, process, listed>>

\* agent.getPost rejects.
GetPostRejects(c) ==
  /\ calls[c].pc = "fetching"
  /\ \E msg \in UpstreamErrors : calls' = [calls EXCEPT ![c] = handler_rejected(@, msg)]
  /\ Respond(c)
  /\ UNCHANGED <<posts, blobs, orphans, lists, now, served, records, profile, process, listed>>

\* One of the uploads in flight resolves with its blob; the last one
\* resolves Promise.all.
UploadResolves(c) ==
  /\ calls[c].pc = "uploading"
  /\ \E j \in calls[c].pending :
       LET img == Get(calls[c].images)[j]
           blob == [ref |-> blobs + 1,
                    mimeType |-> IF IsSome(img.encoding) THEN Get(img.encoding) ELSE "image/jpeg",
                    size |-> Len(img.data)]
       IN calls' = [calls EXCEPT ![c] = uploadResolved(@, j, blob, now)]
  /\ blobs' = blobs + 1
  /\ Respond(c)
  /\ UNCHANGED <<posts, orphans, lists, now, served, records, profile, process, listed>>

\* One of the uploads in flight rejects: Promise.all rejects at once, and
\* the other uploads stay in flight.
UploadRejects(c) ==
  /\ calls[c].pc = "uploading"
  /\ \E j \in calls[c].pending, msg \in UpstreamErrors :
       /\ calls' = [calls EXCEPT ![c] = uploadRejected(@, j, msg, now)]
       /\ orphans' = orphans + IF calls'[c].pc = "done"
                                THEN Cardinality(calls[c].pending \ {j}) ELSE 0
  /\ Respond(c)
  /\ UNCHANGED <<posts, blobs, lists, now, served, records, profile, process, listed>>

\* An upload whose call has ended settles.
OrphanSettles ==
  /\ orphans > 0
  /\ orphans' = orphans - 1
  /\ blobs' \in {blobs, blobs + 1}
  /\ UNCHANGED <<calls, responses, posts, lists, now, served, records, profile, process, listed>>

\* agent.post resolves, for a handler module that kept previousPost in a
\* variable shared by all calls: the new reference also becomes the
\* previous post of every other thread in progress.
CreateResolves_sharedPrevious(c) ==
  /\ calls[c].pc = "submitting"
  /\ LexiconValid(calls[c].record)
  /\ Len(posts) < Len(RecordKeys)
  /\ LET rkey == RecordKeys[Len(posts) + 1]
         stored == [repo |-> MyDid, rkey |-> rkey, value |-> calls[c].record,
                    deleted |-> FALSE]
     IN /\ posts' = Append(posts, stored)
        /\ calls' = [d \in AllCalls |->
                       IF d = c
                       THEN afterPost([calls[c] EXCEPT !.effects = @ + 1],
                                      PostResult(RefOf(stored).uri, RefOf(stored).cid), now)
                       ELSE IF calls[d].name = "create_thread" /\ calls[d].pc # "done"
                       THEN [calls[d] EXCEPT !.previousPost = Some(RefOf(stored))]
                       ELSE calls[d]]
  /\ Respond(c)
  /\ UNCHANGED <<blobs, orphans, lists, now, served, records, profile, process, listed>>

\* agent.post resolves: the upstream stores the record under a new key.
CreateResolves(c) ==
  /\ calls[c].pc = "submitting"
  /\ LexiconValid(calls[c].record)
  /\ Len(posts) < Len(RecordKeys)
  /\ LET rkey == RecordKeys[Len(posts) + 1]
         stored == [repo |-> MyDid, rkey |-> rkey, value |-> calls[c].record,
                    deleted |-> FALSE]
     IN /\ posts' = Append(posts, stored)
        /\ calls' = [calls EXCEPT ![c] =
                       afterPost([@ EXCEPT !.effects = @ + 1],
                                 PostResult(RefOf(stored).uri, RefOf(stored).cid), now)]
  /\ Respond(c)
  /\ UNCHANGED <<blobs, orphans, lists, now, served, records, profile, process, listed>>

\* agent.post rejects.
CreateRejects(c) ==
  /\ calls[c].pc = "submitting"
  /\ \E msg \in UpstreamErrors : calls' = [calls EXCEPT ![c] = handler_rejected(@, msg)]
  /\ Respond(c)
  /\ UNCHANGED <<posts, blobs, orphans, lists, now, served, records, profile, process, listed>>

\* The pacing timer of create_thread fires: the loop goes on.
TimerFires(c) ==
  /\ calls[c].pc = "sleeping"
  /\ now >= calls[c].wakeAt
  /\ calls' = [calls EXCEPT ![c] = thread_next(@, now)]
  /\ Respond(c)
  /\ UNCHANGED <<posts, blobs, orphans, lists, now, served, records, profile, process, listed>>

\* Time passes while a timer is pending.
Tick ==
  /\ \E c \in AllCalls : calls[c].pc = "sleeping" /\ now < calls[c].wakeAt
  /\ now + TickMs <= MaxTime
  /\ now' = now + TickMs
  /\ UNCHANGED <<calls, responses, posts, blobs, orphans, lists, served, records, profile, process, listed>>

\* The request of a one-request handler resolves, and the handler returns
\* its result.  The upstream refuses a limit outside 1..100, a list purpose
\* it does not know and a delete in another account's repo; deleting a
\* record that does not exist succeeds and changes nothing.
RequestResolves(c) ==
  /\ calls[c].pc = "requesting"
  /\ LET k == calls[c]
         q == LastRequest(k)
     IN CASE q.op = "deleteRecord" ->
               /\ q.detail.repo = Some(MyDid)
               /\ posts' = [n \in 1..Len(posts) |->
                              IF posts[n].repo = MyDid /\ posts[n].rkey = q.detail.rkey
                              THEN [posts[n] EXCEPT !.deleted = TRUE] ELSE posts[n]]
               /\ calls' = [calls EXCEPT ![c] =
                              succeed([k EXCEPT !.effects = @ + 1],
                                      [success |-> TRUE, deleted_uri |-> Get(k.args.uri)])]
               /\ UNCHANGED <<lists, records, profile>>
          [] q.op \in FeedOps ->
               /\ q.detail.limit >= 1 /\ q.detail.limit <= MaxLimit
               /\ LET live == SelectSeq(posts, LAMBDA p :
                                 /\ ~p.deleted
                                 /\ q.op = "getAuthorFeed" => p.repo = DidOf(q.detail.subject))
                      feed == SubSeq(live, 1, IF Len(live) < q.detail.limit
                                              THEN Len(live) ELSE q.detail.limit)
                  IN calls' = [calls EXCEPT ![c] = feed_return(k, feed)]
               /\ UNCHANGED <<posts, lists, records, profile>>
          [] q.op \in PageOps ->
               /\ q.detail.limit >= 1 /\ q.detail.limit <= MaxLimit
               /\ \E n \in {0, IF Len(Actors) < q.detail.limit
                                THEN Len(Actors) ELSE q.detail.limit} :
                    calls' = [calls EXCEPT ![c] = page_return(k, SubSeq(Actors, 1, n))]
               /\ UNCHANGED <<posts, lists, records, profile>>
          [] q.op = "getProfile" ->
               /\ calls' = [calls EXCEPT ![c] =
                              succeed(k, [did |-> DidOf(q.detail.actor),
                                          handle |-> q.detail.actor,
                                          displayName |-> profile.displayName,
                                          avatar |-> profile.avatar])]
               /\ UNCHANGED <<posts, lists, records, profile>>
          [] q.op = "getPostThread" ->
               /\ \E thread \in ThreadViews :
                    calls' = [calls EXCEPT ![c] = get_post_thread_return(k, thread)]
               /\ UNCHANGED <<posts, lists, records, profile>>
          [] q.op = "createList" ->
               /\ q.detail.purpose[2] \in Purposes
               /\ lists' = Append(lists, q.detail)
               /\ calls' = [calls EXCEPT ![c] =
                              succeed([k EXCEPT !.effects = @ + 1],
                                         [success |-> TRUE,
                                          uri |-> AtUri(MyDid, ListCollection,
                                                        RecordKeys[Len(lists) + 1]),
                                          cid |-> CidOf(RecordKeys[Len(lists) + 1])])]
               /\ UNCHANGED <<posts, records, profile>>
          [] q.op \in CreateOps ->
               /\ Len(posts) + Len(records) < Len(RecordKeys)
               /\ LET stored == [collection |-> CollectionOf(q.op),
                                 rkey |-> RecordKeys[Len(posts) + Len(records) + 1],
                                 subject |-> q.detail.subject, deleted |-> FALSE]
                  IN /\ records' = Append(records, stored)
                     /\ calls' = [calls EXCEPT ![c] = created_return(k, RecordUri(stored))]
               /\ UNCHANGED <<posts, lists, profile>>
          [] q.op \in DeleteOps ->
               /\ q.detail.repo = Some(MyDid)
               /\ records' = [n \in 1..Len(records) |->
                                IF /\ records[n].collection = CollectionOf(q.op)
                                   /\ records[n].rkey = q.detail.rkey
                                THEN [records[n] EXCEPT !.deleted = TRUE] ELSE records[n]]
               /\ calls' = [calls EXCEPT ![c] =
                              succeed([k EXCEPT !.effects = @ + 1], [success |-> TRUE])]
               /\ UNCHANGED <<posts, lists, profile>>
          [] q.op = "upsertProfile" ->
               /\ profile' = IF k.tool = "update_avatar"
                             THEN updateAvatar_merge(profile, q.detail.avatar)
                             ELSE updateProfile_merge(profile, q.detail)
               /\ LET k1 == [k EXCEPT !.effects = @ + 1, !.received = Some(profile)]
                  IN calls' = [calls EXCEPT ![c] =
                                 IF k.tool = "update_profile" THEN update_profile_return(k1)
                                 ELSE succeed(k1, [success |-> TRUE])]
               /\ UNCHANGED <<posts, lists, records>>
  /\ Respond(c)
  /\ UNCHANGED <<blobs, orphans, now, served, process, listed>>

\* The request of a one-request handler rejects.
RequestRejects(c) ==
  /\ calls[c].pc = "requesting"
  /\ \E msg \in UpstreamErrors : calls' = [calls EXCEPT ![c] = handler_rejected(@, msg)]
  /\ Respond(c)
  /\ UNCHANGED <<posts, blobs, orphans, lists, now, served, records, profile, process, listed>>

\* agent.uploadBlob of client.updateAvatar resolves with the blob.
AvatarUploadResolves(c) ==
  /\ calls[c].pc = "avatarUploading"
  /\ LET img == Get(calls[c].images)[1]
         blob == [ref |-> blobs + 1, mimeType |-> Get(img.encoding), size |-> Len(img.data)]
     IN calls' = [calls EXCEPT ![c] = updateAvatar_afterUpload(@, blob, now)]
  /\ blobs' = blobs + 1
  /\ Respond(c)
  /\ UNCHANGED <<posts, orphans, lists, now, served, records, profile, process, listed>>

\* agent.uploadBlob of client.updateAvatar rejects.
AvatarUploadRejects(c) ==
  /\ calls[c].pc = "avatarUploading"
  /\ \E msg \in UpstreamErrors : calls' = [calls EXCEPT ![c] = handler_rejected(@, msg)]
  /\ Respond(c)
  /\ UNCHANGED <<posts, blobs, orphans, lists, now, served, records, profile, process, listed>>

\* The process runs the top of index.ts.
Startup ==
  /\ process.phase = "starting"
  /\ process' = startup(process)
  /\ UNCHANGED <<calls, responses, posts, blobs, orphans, lists, now, served, records,
                 profile, listed>>

\* agent.login resolves: the password is the account's app password.
LoginResolves ==
  /\ process.phase = "loggingIn"
  /\ process.env.BLUESKY_APP_PASSWORD = Some(AppPassword)
  /\ process' = login_resolved(process)
  /\ UNCHANGED <<calls, responses, posts, blobs, orphans, lists, now, served, records,
                 profile, listed>>

\* agent.login rejects: a wrong password, or the network.
LoginRejects ==
  /\ process.phase = "loggingIn"
  /\ process' = login_rejected(process)
  /\ UNCHANGED <<calls, responses, posts, blobs, orphans, lists, now, served, records,
                 profile, listed>>

\* A list-tools request is answered.
ListTools ==
  /\ process.phase = "serving"
  /\ Len(listed) < MaxCalls
  /\ listed' = Append(listed, ListToolsResult(process.tools))
  /\ UNCHANGED <<calls, responses, posts, blobs, orphans, lists, now, served, records,
                 profile, process>>

\* ----------------------------------------------------------------- inputs

\* The names the host calls that are no tool's name.
UnknownNames == {"nonexistent_tool", "constructor", "toString", "__proto__", ""}

ShortText(id) == Text(id, 10 + id)
LongText == Text(9, MaxTextLength + 1)

ImgPath == [path |-> Some(PathLowerPng), data |-> None, alt |-> Some("a cat")]
ImgData == [path |-> None, data |-> Some(DataRawJpeg), alt |-> None]
ImgNeither == [path |-> None, data |-> None, alt |-> None]

RECURSIVE SeqsUpTo(_, _)
SeqsUpTo(S, n) ==
  IF n = 0 THEN {<<>>}
  ELSE LET shorter == SeqsUpTo(S, n - 1)
       IN shorter \cup {Append(q, x) : q \in {r \in shorter : Len(r) = n - 1}, x \in S}

\* The arguments of the post calls.
PostInputs ==
  {[EmptyArgs EXCEPT !.text = Some(t)] : t \in {ShortText(1), LongText}}
    \cup {[EmptyArgs EXCEPT !.text = Some(ShortText(1)), !.images = Some(imgs)] :
            imgs \in SeqsUpTo({ImgPath, ImgData, ImgNeither}, MaxImages)}

\* The arguments of the reply and quote_post calls: a reference to any post
\* of the network, or to none.
TargetInputs ==
  {[EmptyArgs EXCEPT !.text = Some(ShortText(1)), !.uri = Some(r.uri), !.cid = Some(r.cid)] :
     r \in {RefOf(posts[n]) : n \in 1..Len(posts)} \cup {MissingRef}}

\* The arguments of the create_thread calls: no posts property, or texts
\* 1..n in order, two texts out of order, or a text that is too long.
ThreadInputs ==
  {EmptyArgs}
    \cup {[EmptyArgs EXCEPT !.posts = Some([j \in 1..n |-> ShortText(j)])] : n \in 0..MaxThread}
    \cup {[EmptyArgs EXCEPT !.posts = Some(<<ShortText(2), ShortText(1)>>)],
          [EmptyArgs EXCEPT !.posts = Some(<<ShortText(1), LongText>>)]}

DeleteInputs ==
  {[EmptyArgs EXCEPT !.uri = Some(RefOf(posts[n]).uri)] : n \in 1..Len(posts)}

TimelineInputs ==
  {EmptyArgs} \cup {[EmptyArgs EXCEPT !.limit = Some(l)] : l \in {0, 20, MaxLimit + 1}}

ListInputs ==
  {[EmptyArgs EXCEPT !.name = Some("Tech"), !.description = Some("tech accounts"),
                     !.purpose = Some(p)] : p \in Purposes \cup {"banlist"}}

\* -------------------------------------------------------- specifications

\* One call against any state of the network: the upstream answers each
\* request or fails it; timers fire when their time has come.
Next ==
  \/ \E c \in HostCalls :
       \/ \E name \in UnknownNames : CallTool(c, name, EmptyArgs)
       \/ \E args \in PostInputs : CallTool(c, "post", args)
       \/ \E args \in TargetInputs : CallTool(c, "reply", args)
       \/ \E args \in TargetInputs : CallTool(c, "quote_post", args)
       \/ \E args \in ThreadInputs : CallTool(c, "create_thread", args)
       \/ \E args \in DeleteInputs : CallTool(c, "delete_post", args)
       \/ \E args \in TimelineInputs : CallTool(c, "get_timeline", args)
       \/ \E args \in ListInputs : CallTool(c, "create_list", args)
       \/ GetPostResolves(c)
       \/ GetPostRejects(c)
       \/ UploadResolves(c)
       \/ UploadRejects(c)
       \/ CreateResolves(c)
       \/ CreateRejects(c)
       \/ TimerFires(c)
       \/ RequestResolves(c)
       \/ RequestRejects(c)
  \/ OrphanSettles
  \/ Tick

Spec == Init /\ [][Next]_vars

\* The calls of a host that sends one call after the other.
ServeInputs ==
  {[name |-> n, args |-> EmptyArgs] : n \in {"nonexistent_tool", "constructor", "create_thread"}}
    \cup {[name |-> "post", args |-> [EmptyArgs EXCEPT !.text = Some(ShortText(1))]],
          [name |-> "post", args |-> [EmptyArgs EXCEPT !.text = Some(ShortText(1)),
                                                       !.images = Some(<<ImgNeither>>)]],
          [name |-> "get_timeline", args |-> [EmptyArgs EXCEPT !.limit = Some(MaxLimit + 1)]],
          [name |-> "get_timeline", args |-> EmptyArgs]}

NextServe ==
  \E c \in HostCalls :
    \/ \E in \in ServeInputs : CallTool(c, in.name, in.args)
    \/ \E in \in ServeInputs : NextCall(c, in.name, in.args)
    \/ CreateResolves(c)
    \/ CreateRejects(c)
    \/ RequestResolves(c)
    \/ RequestRejects(c)

SpecServe == Init /\ [][NextServe]_vars

\* A post call with one image, for every way of giving the image.
ImageInputs ==
  {[path |-> pth, data |-> dat, alt |-> None] :
     pth \in {None, Some(PathLowerPng), Some(PathUpperPng), Some(PathJpg), Some(PathJpeg),
              Some(PathNoExt), Some(PathMissing)},
     dat \in {None, Some(DataUrlPng), Some(DataUrlJpeg), Some(DataRawPng), Some(DataRawJpeg),
              Some(DataInvalid)}}

NextImage ==
  \E c \in HostCalls :
    \/ \E img \in ImageInputs :
         CallTool(c, "post", [EmptyArgs EXCEPT !.text = Some(ShortText(1)),
                                               !.images = Some(<<img>>)])
    \/ UploadResolves(c)
    \/ UploadRejects(c)
    \/ CreateResolves(c)
    \/ CreateRejects(c)

SpecImage == Init /\ [][NextImage]_vars

\* A get_post_thread call, answered with any thread view.
ThreadReadInputs ==
  {[EmptyArgs EXCEPT !.uri = Some(RefOf(posts[n]).uri)] : n \in 1..Len(posts)}

NextThread ==
  \E c \in HostCalls :
    \/ \E args \in ThreadReadInputs : CallTool(c, "get_post_thread", args)
    \/ RequestResolves(c)
    \/ RequestRejects(c)

SpecThread == Init /\ [][NextThread]_vars

\* ----------------------------------------------------------------- claims

\* The positions in a call's log of its requests of one kind.
OpsIn(k, op) == {m \in 1..Len(k.log) : k.log[m].op = op}

\* The stored post a uri names.
StoredAt(uri) == CHOOSE n \in 1..Len(posts) : RefOf(posts[n]).uri = uri

IsStored(uri) == \E n \in 1..Len(posts) : RefOf(posts[n]).uri = uri

Ended(c) == calls[c].pc = "done"

Failed(c) == Ended(c) /\ Get(calls[c].env).isError

Succeeded(c) == Ended(c) /\ ~Get(calls[c].env).isError

\* C1: a call whose name is no registered tool's name ends in the
\* 'Unknown tool: <name>' error envelope, with no upstream request issued.
C1_UnknownNameGetsUnknownToolEnvelope ==
  \A c \in AllCalls :
    (Ended(c) /\ calls[c].name \notin DOMAIN allTools)
      => /\ calls[c].env = Some(UnknownToolEnvelope(calls[c].name))
         /\ calls[c].log = <<>>

\* C2: an Error raised during a call ends the call in an error envelope
\* whose text holds the Error's message, and a slot whose call has ended
\* takes the next call, whatever the outcomes so far.
C2_ErrorsBecomeEnvelopes ==
  \A c \in HostCalls :
    /\ IsSome(calls[c].thrown)
         => /\ Failed(c)
            /\ \E i \in 1..Len(Get(calls[c].env).text) :
                 Get(calls[c].env).text[i] = Get(calls[c].thrown)
    /\ calls[c].pc \in {"idle", "done", "submitting", "requesting"}
    /\ (Ended(c) /\ served < MaxCalls)
         => \A in \in ServeInputs : ENABLED NextCall(c, in.name, in.args)

\* C2 witness: a call failed on an upstream Error and the next call succeeded.
C2_ServedAfterFailure ==
  /\ Len(responses) >= 2
  /\ responses[1].isError /\ responses[1].name = "post"
  /\ ~responses[2].isError

\* C3: a create_thread call that fails after it created posts returns the
\* references of those posts.  (The text of an error envelope is the fixed
\* prefix, the tool name and the Error's message; a reference can only
\* travel in a result.)
C3_FailedThreadReturnsCreatedPrefix ==
  \A c \in AllCalls :
    (Ended(c) /\ calls[c].name = "create_thread" /\ IsSome(calls[c].thrown)
       /\ Len(calls[c].results) > 0)
      => /\ IsSome(Get(calls[c].env).result)
         /\ Get(Get(calls[c].env).result).thread = calls[c].results

C5_ThreadIsAChain ==
  \A c \in AllCalls :
    (calls[c].name = "create_thread" /\ Succeeded(c)
       /\ Len(Get(calls[c].args.posts)) >= MinThreadItems
       /\ Len(Get(calls[c].args.posts)) <= MaxThreadItems)
      => LET texts == Get(calls[c].args.posts)
             thread == Get(Get(calls[c].env).result).thread
             ref(j) == Ref(thread[j].uri, thread[j].cid)
             stored(j) == posts[StoredAt(thread[j].uri)]
         IN /\ Len(thread) = Len(texts)
            /\ Cardinality(OpsIn(calls[c], "createRecord")) = Len(texts)
            /\ calls[c].effects = Len(texts)
            /\ \A j \in 1..Len(thread) :
                 /\ IsStored(thread[j].uri)
                 /\ RefOf(stored(j)) = ref(j)
                 /\ stored(j).value.text = texts[j]
                 /\ j = 1 => stored(j).value.reply = None
                 /\ j > 1 => /\ StoredAt(thread[j - 1].uri) < StoredAt(thread[j].uri)
                             /\ stored(j).value.reply =
                                  Some([root |-> ref(1), parent |-> ref(j - 1)])

\* C5 witness: a thread of three posts has been created.
C5_ThreadOfThreeCreated ==
  \E c \in AllCalls :
    /\ calls[c].name = "create_thread" /\ Succeeded(c)
    /\ Len(Get(Get(calls[c].env).result).thread) = 3

\* C6: a call whose arguments violate the tool's declared schema ends in an
\* error envelope and changes nothing upstream.
C6_SchemaViolationsRejected ==
  \A c \in AllCalls :
    (Ended(c) /\ calls[c].name \in DOMAIN allTools
       /\ ~SchemaValid(calls[c].name, calls[c].args))
      => /\ Get(calls[c].env).isError
         /\ calls[c].effects = 0

\* C7: a create_thread call never issues a delete; once it has failed, the
\* j-th create it issued carried the j-th text, at most one create was
\* issued beyond the posts it created, the failed request is the last one
\* it issued, and every post it created is still stored.
C7_FailedThreadStopsAndKeepsPrefix ==
  \A c \in AllCalls :
    (calls[c].name = "create_thread" /\ IsSome(calls[c].args.posts))
      => LET k == calls[c]
             creates == OpsIn(k, "createRecord")
         IN /\ OpsIn(k, "deleteRecord") = {}
            /\ IsSome(k.thrown) /\ Len(k.log) > 0
                 => /\ Ended(c)
                    /\ LastRequest(k).op \in {"getPost", "createRecord"}
                    /\ Cardinality(creates) =
                         Len(k.results) + IF LastRequest(k).op = "createRecord" THEN 1 ELSE 0
                    /\ \A m \in creates :
                         k.log[m].detail.text =
                           Get(k.args.posts)[Cardinality({n \in creates : n <= m})]
                    /\ k.effects = Len(k.results)
                    /\ \A j \in 1..Len(k.results) :
                         /\ IsStored(k.results[j].uri)
                         /\ ~posts[StoredAt(k.results[j].uri)].deleted

\* C7 witness: a thread failed after its first post, with at least one
\* text never sent.
C7_ThreadFailedMidway ==
  \E c \in AllCalls :
    /\ calls[c].name = "create_thread" /\ IsSome(calls[c].thrown)
    /\ Len(calls[c].results) >= 1
    /\ Len(calls[c].results) + 1 < Len(Get(calls[c].args.posts))

\* C8: between two creates of one create_thread call a timer was started
\* when the earlier post had been created, and the later create was issued
\* no sooner than 1000 ms after that.
C8_PacingDelayBetweenCreates ==
  \A c \in AllCalls :
    calls[c].name = "create_thread"
      => \A n, m \in OpsIn(calls[c], "createRecord") :
           n < m => \E t \in OpsIn(calls[c], "setTimeout") :
                      /\ n < t /\ t < m
                      /\ \A between \in OpsIn(calls[c], "createRecord") :
                           ~(t < between /\ between < m)
                      /\ calls[c].log[t].at >= calls[c].log[n].at
                      /\ calls[c].log[m].at >= calls[c].log[t].at + PacingDelayMs

\* C8 witness: a thread has issued its second create.
C8_SecondCreateIssued ==
  \E c \in AllCalls :
    /\ calls[c].name = "create_thread"
    /\ Cardinality(OpsIn(calls[c], "createRecord")) >= 2

\* What C9 says of one image: PNG by its file name (any letter case), by a
\* PNG data-URL prefix, or by its bytes beginning with the PNG magic bytes.
SaidToBePng(image) ==
  IF Truthy(image.path)
  THEN endsWith(toLowerCase(Get(image.path)), SuffixPng)
  ELSE \/ startsWith(Get(image.data), PrefixPng)
       \/ startsWith(base64ToUint8Array(Get(image.data)), PngMagic)

\* C9: every image is uploaded as image/png when its file name ends in
\* .png or its inline data begins with a PNG prefix or the PNG magic bytes,
\* and as image/jpeg otherwise.
C9_PngByNamePrefixOrMagic ==
  \A c \in AllCalls :
    calls[c].name = "post"
      => \A m \in OpsIn(calls[c], "uploadBlob") :
           LET image == Get(calls[c].args.images)[calls[c].log[m].detail.index]
           IN calls[c].log[m].detail.encoding =
                IF SaidToBePng(image) THEN "image/png" ELSE "image/jpeg"

\* C10: the record of a post with images is submitted only when every
\* upload has resolved, and it embeds their blobs; when an upload has
\* failed the record is never submitted and the call ends in an error
\* envelope.
C10_PostWaitsForEveryUpload ==
  \A c \in AllCalls :
    (calls[c].name = "post" /\ Len(calls[c].uploaded) > 0)
      => LET k == calls[c]
             creates == OpsIn(k, "createRecord")
         IN /\ creates # {}
                 => /\ k.pending = {}
                    /\ \A j \in 1..Len(k.uploaded) : IsSome(k.uploaded[j])
                    /\ \A m \in creates :
                         /\ IsSome(k.log[m].detail.embed)
                         /\ \A j \in 1..Len(k.uploaded) :
                              Get(k.log[m].detail.embed).images[j].image = Get(k.uploaded[j])
            /\ (k.pc # "uploading" /\ \E j \in 1..Len(k.uploaded) : ~IsSome(k.uploaded[j]))
                 => /\ Failed(c)
                    /\ creates = {}

\* C10 witness: one upload of a post resolved, another failed, and the call
\* has ended.
C10_OneUploadFailedAfterAnother ==
  \E c \in AllCalls :
    /\ calls[c].name = "post" /\ Ended(c)
    /\ \E i, j \in 1..Len(calls[c].uploaded) :
         IsSome(calls[c].uploaded[i]) /\ ~IsSome(calls[c].uploaded[j])

\* The nodes of a formatted thread.
RECURSIVE ResultNodes(_)
ResultNodes(r) == {r} \cup UNION {ResultNodes(r.replies[i]) : i \in 1..Len(r.replies)}

\* The position in the thread that a post's uri names.
PathOf(node) == node.uri[5]

\* The positions of the posts of a thread view.
RECURSIVE PostPaths(_)
PostPaths(view) ==
  IF view.type # ThreadViewPost THEN {}
  ELSE {PathOf(Get(view.post))}
         \cup (IF IsSome(view.replies)
               THEN UNION {PostPaths(Get(view.replies)[i]) : i \in 1..Len(Get(view.replies))}
               ELSE {})

\* C11: the tree get_post_thread returns holds exactly the posts of the
\* upstream's thread view, the not-found replies left out at every depth;
\* every node's replies are its own replies upstream, in upstream order.
C11_DeletedRepliesPruned ==
  \A c \in AllCalls :
    (calls[c].name = "get_post_thread" /\ Succeeded(c))
      => LET T == Get(calls[c].received)
             R == Get(Get(calls[c].env).result).thread
         IN IF T.type = NotFoundPost THEN R = None
            ELSE /\ IsSome(R)
                 /\ PathOf(Get(R)) = <<1>>
                 /\ {PathOf(n) : n \in ResultNodes(Get(R))} = PostPaths(T)
                 /\ \A n \in ResultNodes(Get(R)) :
                      \A i \in 1..Len(n.replies) :
                        LET p == PathOf(n.replies[i])
                        IN /\ Len(p) = Len(PathOf(n)) + 1
                           /\ SubSeq(p, 1, Len(PathOf(n))) = PathOf(n)
                           /\ \A j \in 1..(i - 1) : PathOf(n.replies[j])[Len(p)] < p[Len(p)]

\* C11 witness: a thread was returned in which a reply of a reply was not
\* found and its later sibling was kept.
C11_PrunedBesideSibling ==
  \E c \in AllCalls :
    /\ calls[c].name = "get_post_thread" /\ Succeeded(c)
    /\ Get(calls[c].received).type = ThreadViewPost
    /\ HasNode(Get(calls[c].received), NotFoundPost)
    /\ \E n \in ResultNodes(Get(Get(Get(calls[c].env).result).thread)) :
         Len(PathOf(n)) = 3 /\ PathOf(n)[3] = 2

\* ------------------------------------------------------------ like, unlike

\* The posts the host likes: those of the network.
LikeInputs ==
  {[EmptyArgs EXCEPT !.uri = Some(RefOf(posts[n]).uri), !.cid = Some(RefOf(posts[n]).cid)] :
     n \in 1..Len(posts)}

\* The references the host gives to unlike_post: that of a like record it
\* was given, or that of a post.
UnlikeInputs ==
  {[EmptyArgs EXCEPT !.like_uri = Some(u)] :
     u \in {RecordUri(records[n]) : n \in 1..Len(records)}
            \cup {RefOf(posts[n]).uri : n \in 1..Len(posts)}}

\* A host that likes a post and then undoes it.
NextLike ==
  \E c \in HostCalls :
    \/ \E args \in LikeInputs : CallTool(c, "like_post", args)
    \/ \E args \in LikeInputs : NextCall(c, "like_post", args)
    \/ \E args \in UnlikeInputs : NextCall(c, "unlike_post", args)
    \/ RequestResolves(c)
    \/ RequestRejects(c)

SpecLike == Init /\ [][NextLike]_vars

\* The like records of the upstream on the post with the given uri.
LikesOf(uri) ==
  {n \in 1..Len(records) :
     records[n].collection = LikeCollection /\ records[n].subject.uri = uri}

\* C12: like_post returns the uri of the like record it created;
\* unlike_post with that uri removes the like; unlike_post with the uri of
\* the liked post itself ends in an error envelope and the like stays.
C12_UnlikeNeedsTheLikeReference ==
  \A c \in AllCalls :
    LET k == calls[c]
    IN /\ (k.name = "like_post" /\ Succeeded(c))
            => \E n \in LikesOf(Get(k.args.uri)) :
                 /\ Get(Get(k.env).result).like_uri = RecordUri(records[n])
                 /\ records[n].subject = Ref(Get(k.args.uri), Get(k.args.cid))
                 /\ ~records[n].deleted
       /\ (k.name = "unlike_post" /\ Succeeded(c))
            => \A n \in 1..Len(records) :
                 RecordUri(records[n]) = Get(k.args.like_uri) => records[n].deleted
       /\ (/\ k.name = "unlike_post" /\ Ended(c)
           /\ Get(k.args.like_uri)[4] = PostCollection
           /\ LikesOf(Get(k.args.like_uri)) # {})
            => /\ Failed(c)
               /\ \A n \in LikesOf(Get(k.args.like_uri)) : ~records[n].deleted

\* --------------------------------------------------------- profile updates

\* The arguments of the update_profile calls: each field absent, given, or
\* given as the empty string.
ProfileInputs ==
  {[EmptyArgs EXCEPT !.displayName = dn, !.description = bio] :
     dn \in {None, Some("New name"), Some("")},
     bio \in {None, Some("new bio"), Some("")}}

\* A host that updates the profile, once or again.
NextProfile ==
  \E c \in HostCalls :
    \/ \E args \in ProfileInputs : CallTool(c, "update_profile", args)
    \/ \E args \in ProfileInputs : NextCall(c, "update_profile", args)
    \/ RequestResolves(c)
    \/ RequestRejects(c)

SpecProfile == Init /\ [][NextProfile]_vars

\* C13: after an update_profile call has succeeded, every field of the
\* profile record the call did not give (displayName, description) and
\* every other field (avatar, banner) has the value it had before the
\* call, and every field the call gave has the given value.
C13_UpdateProfileIsMergePatch ==
  \A c \in AllCalls :
    (calls[c].name = "update_profile" /\ Succeeded(c))
      => LET before == Get(calls[c].received)
             args == calls[c].args
         IN /\ profile.avatar = before.avatar
            /\ profile.banner = before.banner
            /\ profile.displayName = IF IsSome(args.displayName) THEN args.displayName
                                     ELSE before.displayName
            /\ profile.description = IF IsSome(args.description) THEN args.description
                                     ELSE before.description
            /\ (args.displayName = None /\ args.description = None) => profile = before

\* C13 witness: a call that gave only displayName has changed the name of
\* a profile that had a description and an avatar.
C13_OnlyNameGivenOnFullProfile ==
  \E c \in AllCalls :
    /\ calls[c].name = "update_profile" /\ Succeeded(c)
    /\ calls[c].args.displayName = Some("New name")
    /\ calls[c].args.description = None
    /\ Get(calls[c].received) = OldProfile
    /\ profile = [OldProfile EXCEPT !.displayName = Some("New name")]

\* ---------------------------------------------------------------- start-up

\* The environments the process is started in: each variable unset, empty
\* or set; the app password right or wrong.
Environments ==
  {Env(h, ap, pw) : h \in {None, Some(""), Some(MyHandle)},
                    ap \in {None, Some(""), Some(AppPassword), Some("wrong")},
                    pw \in {None, Some(AppPassword)}}

\* The process has just been started.
InitStartup ==
  /\ calls = [c \in AllCalls |-> IdleCall]
  /\ responses = <<>>
  /\ posts \in InitialNetworks
  /\ blobs = 0
  /\ orphans = 0
  /\ lists = <<>>
  /\ now = 0
  /\ served = 0
  /\ records = <<>>
  /\ profile = OldProfile
  /\ process \in {StartingProcess(env) : env \in Environments}
  /\ listed = <<>>

\* The calls of the host once the server answers.
StartupInputs ==
  {[name |-> "get_profile", args |-> [EmptyArgs EXCEPT !.handle = h]] :
     h \in {None, Some(""), Some(OtherHandle)}}
    \cup {[name |-> "get_timeline", args |-> EmptyArgs]}

\* The process from its start: the environment check, the login, then the
\* requests of the host.
NextStartup ==
  \/ Startup
  \/ LoginResolves
  \/ LoginRejects
  \/ ListTools
  \/ \E c \in HostCalls :
       \/ \E in \in StartupInputs : CallTool(c, in.name, in.args)
       \/ \E in \in StartupInputs : NextCall(c, in.name, in.args)
       \/ RequestResolves(c)
       \/ RequestRejects(c)

SpecStartup == InitStartup /\ [][NextStartup]_vars

\* The environment lacks one of the credentials the code reads.
CredentialMissing ==
  ~EnvSet(process.env.BLUESKY_HANDLE) \/ ~EnvSet(process.env.BLUESKY_APP_PASSWORD)

\* The states of C14: without a credential the process, once it has run,
\* has exited with status 1 without a login, a session or a served call;
\* with both it has logged in exactly once; a request is only ever
\* received by a process that serves, with its one login completed.
StartupStates ==
  /\ (CredentialMissing /\ process.phase # "starting")
       => /\ process.phase = "exited"
          /\ IsSome(process.exitCode) /\ Get(process.exitCode) # 0
          /\ process.logins = 0 /\ process.session = None
  /\ (~CredentialMissing /\ process.phase # "starting") => process.logins = 1
  /\ (served > 0 \/ listed # <<>> \/ \E c \in AllCalls : calls[c].pc # "idle")
       => /\ process.phase = "serving"
          /\ process.logins = 1
          /\ process.session = Some(MyDid)

\* The steps of C14: a step that receives a request or moves a call on
\* leaves the process, its session and its login count as they are.
HandlersLeaveSession ==
  (calls' # calls \/ served' # served \/ listed' # listed) => process' = process

\* C14: if a credential is missing at start-up the process exits with a
\* non-zero status before any login and before serving a call; otherwise
\* it logs in exactly once, the login completes before the first request
\* is handled, and no handler logs in again or changes the session.
C14_LoginOnceBeforeServing == []StartupStates /\ [][HandlersLeaveSession]_vars

\* C14 witness: a process started with both credentials has answered a
\* call after its one login.
C14_CallServedAfterLogin ==
  /\ process.phase = "serving" /\ process.logins = 1
  /\ \E c \in AllCalls : Succeeded(c)

\* C15: a process started with BLUESKY_HANDLE and BLUESKY_PASSWORD set, as
\* the README says, and nothing else, does not take the
\* missing-credentials exit.
C15_ReadmeVariablesStartTheServer ==
  (/\ process.env = Env(Some(MyHandle), None, Some(AppPassword))
   /\ process.phase # "starting")
    => ~(process.phase = "exited" /\ process.logins = 0)

\* ------------------------------------------------- every tool, minimal args

\* The groups the registry is merged from, in the order of the spread.
ToolGroups == <<postingTools, feedTools, searchTools, engagementTools>>

\* For each tool, arguments that give its required properties and nothing
\* else, each within its schema.
MinimalArgs(name) ==
  LET target == RefOf(InitialPosts[1])
  IN CASE name = "post" -> [EmptyArgs EXCEPT !.text = Some(ShortText(1))]
       [] name \in {"reply", "quote_post"} ->
            [EmptyArgs EXCEPT !.uri = Some(target.uri), !.cid = Some(target.cid),
                              !.text = Some(ShortText(1))]
       [] name = "create_thread" ->
            [EmptyArgs EXCEPT !.posts = Some([j \in 1..MinThreadItems |-> ShortText(j)])]
       [] name = "delete_post" -> [EmptyArgs EXCEPT !.uri = Some(RefOf(MyOldPost).uri)]
       [] name = "get_author_feed" -> [EmptyArgs EXCEPT !.handle = Some(OtherHandle)]
       [] name = "search_posts" -> [EmptyArgs EXCEPT !.query = Some("mcp")]
       [] name \in {"get_post_thread", "get_post_likes", "get_post_reposts"} ->
            [EmptyArgs EXCEPT !.uri = Some(target.uri)]
       [] name = "get_list" ->
            [EmptyArgs EXCEPT !.uri = Some(AtUri(OtherDid, ListCollection, "3kl1"))]
       [] name \in {"like_post", "repost"} ->
            [EmptyArgs EXCEPT !.uri = Some(target.uri), !.cid = Some(target.cid)]
       [] name = "unlike_post" ->
            [EmptyArgs EXCEPT !.like_uri = Some(AtUri(MyDid, LikeCollection, "3kk1"))]
       [] name = "delete_repost" ->
            [EmptyArgs EXCEPT !.repost_uri = Some(AtUri(MyDid, RepostCollection, "3kr1"))]
       [] name = "follow" -> [EmptyArgs EXCEPT !.did = Some(OtherDid)]
       [] name = "unfollow" ->
            [EmptyArgs EXCEPT !.follow_uri = Some(AtUri(MyDid, FollowCollection, "3kf1"))]
       [] name = "add_to_list" ->
            [EmptyArgs EXCEPT !.list_uri = Some(AtUri(MyDid, ListCollection, "3kl2")),
                              !.did = Some(OtherDid)]
       [] name = "remove_from_list" ->
            [EmptyArgs EXCEPT !.listitem_uri = Some(AtUri(MyDid, ListItemCollection, "3ki1"))]
       [] name = "create_list" ->
            [EmptyArgs EXCEPT !.name = Some("Tech"), !.description = Some("tech accounts"),
                              !.purpose = Some("curatelist")]
       [] OTHER -> EmptyArgs

\* A host that lists the tools and calls any one of them with minimal
\* arguments.
NextTools ==
  \/ ListTools
  \/ \E c \in HostCalls :
       \/ \E name \in DOMAIN allTools : CallTool(c, name, MinimalArgs(name))
       \/ GetPostResolves(c)
       \/ GetPostRejects(c)
       \/ CreateResolves(c)
       \/ CreateRejects(c)
       \/ TimerFires(c)
       \/ RequestResolves(c)
       \/ RequestRejects(c)
  \/ Tick

SpecTools == Init /\ [][NextTools]_vars

\* C16: no name is in two groups; the registry is the union of the groups,
\* each name with its own group's descriptor; every answer to list-tools
\* has one entry per registered name, with that descriptor's description
\* and schema; a call of a registered name runs its own group's handler;
\* and the registry of the serving process stays the merged one.
C16_RegistryIsDisjointUnion ==
  /\ \A i, j \in 1..Len(ToolGroups) :
       i # j => DOMAIN ToolGroups[i] \cap DOMAIN ToolGroups[j] = {}
  /\ DOMAIN allTools = UNION {DOMAIN ToolGroups[i] : i \in 1..Len(ToolGroups)}
  /\ \A i \in 1..Len(ToolGroups) : \A n \in DOMAIN ToolGroups[i] :
       allTools[n] = ToolGroups[i][n]
  /\ process.tools = allTools
  /\ \A a \in 1..Len(listed) :
       /\ Cardinality(listed[a]) = Cardinality(DOMAIN allTools)
       /\ \A n \in DOMAIN allTools :
            \E e \in listed[a] :
              /\ e.name = n
              /\ \E i \in 1..Len(ToolGroups) :
                   /\ n \in DOMAIN ToolGroups[i]
                   /\ e.description = <<ToolGroups[i][n].group, n, "description">>
                   /\ e.inputSchema = <<ToolGroups[i][n].group, n, "inputSchema">>
  /\ \A c \in AllCalls :
       (calls[c].pc # "idle" /\ calls[c].name \in DOMAIN allTools)
         => \E i \in 1..Len(ToolGroups) :
              /\ calls[c].name \in DOMAIN ToolGroups[i]
              /\ calls[c].tool = ToolGroups[i][calls[c].name].handler

\* C16 witness: the tools have been listed and a tool of the last group
\* of the spread has run.
C16_ListedAndEngagementToolRan ==
  /\ listed # <<>>
  /\ \E c \in AllCalls : Succeeded(c) /\ calls[c].name \in DOMAIN engagementTools

\* An upstream request of the call has failed.
UpstreamFailed(c) == IsSome(calls[c].thrown) /\ Get(calls[c].thrown) \in UpstreamErrors

\* C17: a call of a registered tool with minimal valid arguments, none of
\* whose upstream requests failed, ends in a success envelope.
C17_MinimalArgsSucceed ==
  \A c \in AllCalls :
    (/\ Ended(c)
     /\ calls[c].name \in DOMAIN allTools
     /\ calls[c].args = MinimalArgs(calls[c].name)
     /\ SchemaValid(calls[c].name, calls[c].args)
     /\ ~UpstreamFailed(c))
      => Succeeded(c)

\* ------------------------------------------------------------------ feeds

\* The limits the host gives: none, zero, small enough to cut the feed, the
\* schema's maximum and one more.
LimitInputs == {None, Some(0), Some(1), Some(2), Some(MaxLimit), Some(MaxLimit + 1)}

\* The calls of the three feed tools.
FeedInputs ==
  {[name |-> "get_timeline", args |-> [EmptyArgs EXCEPT !.limit = l]] : l \in LimitInputs}
    \cup {[name |-> "get_author_feed",
           args |-> [EmptyArgs EXCEPT !.handle = Some(h), !.limit = l]] :
            h \in {MyHandle, OtherHandle}, l \in LimitInputs}
    \cup {[name |-> "search_posts",
           args |-> [EmptyArgs EXCEPT !.query = Some("mcp"), !.limit = l]] :
            l \in LimitInputs}

NextFeeds ==
  \E c \in HostCalls :
    \/ \E in \in FeedInputs : CallTool(c, in.name, in.args)
    \/ RequestResolves(c)
    \/ RequestRejects(c)

SpecFeeds == Init /\ [][NextFeeds]_vars

\* The default limit the claim gives each feed tool.
ClaimedDefault(name) == IF name = "search_posts" THEN 25 ELSE 50

\* C18: a feed call within its schema that has succeeded sent upstream the
\* caller's limit, or the tool's default (50, 50, 25) when the caller gave
\* none, and never more than 100; it returns at most that many entries,
\* in upstream order, and reports their number as count.
C18_FeedCappedAtCallersLimit ==
  \A c \in AllCalls :
    (/\ calls[c].name \in {"get_timeline", "get_author_feed", "search_posts"}
     /\ SchemaValid(calls[c].name, calls[c].args)
     /\ Succeeded(c))
      => LET k == calls[c]
             limit == IF IsSome(k.args.limit) THEN Get(k.args.limit)
                      ELSE ClaimedDefault(k.name)
             result == Get(Get(k.env).result)
             feed == Get(k.received)
         IN /\ k.log[1].detail.limit = limit
            /\ k.log[1].detail.limit <= MaxLimit
            /\ Len(result.posts) <= limit
            /\ result.posts = [n \in 1..Len(feed) |-> RefOf(feed[n])]
            /\ result.count = Len(result.posts)

\* -------------------------------------------------------- image arguments

\* A host that posts one image or sets its avatar, for every way of
\* giving the image.
NextImageArg ==
  \E c \in HostCalls :
    \/ \E img \in ImageInputs :
         CallTool(c, "post", [EmptyArgs EXCEPT !.text = Some(ShortText(1)),
                                               !.images = Some(<<img>>)])
    \/ \E img \in ImageInputs :
         CallTool(c, "update_avatar", [EmptyArgs EXCEPT !.path = img.path, !.data = img.data])
    \/ UploadResolves(c)
    \/ UploadRejects(c)
    \/ CreateResolves(c)
    \/ CreateRejects(c)
    \/ AvatarUploadResolves(c)
    \/ AvatarUploadRejects(c)
    \/ RequestResolves(c)
    \/ RequestRejects(c)

SpecImageArg == Init /\ [][NextImageArg]_vars

\* The image argument of a post or update_avatar call.
ImageArgOf(k) == IF k.name = "post" THEN Get(k.args.images)[1] ELSE k.args

CreateOrdinal(k, m) == Cardinality({x \in OpsIn(k, "createRecord") : x <= m})

\* C20: in a create_thread call the creates are issued one at a time: at
\* most one more create has been issued than references have come back,
\* and that one is in flight or has failed; the parent fetch for the next
\* post is issued only after the reference of the post before has come
\* back; and the create for post n + 1 follows that fetch and carries the
\* reference the create for post n returned.
C20_ThreadCreatesSerialized ==
  \A c \in AllCalls :
    calls[c].name = "create_thread"
      => LET k == calls[c]
             creates == OpsIn(k, "createRecord")
             fetches == OpsIn(k, "getPost")
         IN /\ Cardinality(creates) <= Len(k.results) + 1
            /\ Cardinality(creates) = Len(k.results) + 1
                 <=> \/ k.pc = "submitting"
                     \/ Failed(c) /\ k.log # <<>> /\ LastRequest(k).op = "createRecord"
            /\ Cardinality(fetches) <= Len(k.results)
            /\ \A m \in creates :
                 LET n == CreateOrdinal(k, m)
                 IN n > 1
                      => /\ k.log[m].detail.reply # None
                         /\ Get(k.log[m].detail.reply).parent
                              = Ref(k.results[n - 1].uri, k.results[n - 1].cid)
                         /\ \E f \in fetches :
                              /\ f < m
                              /\ \A x \in creates : x < m => x < f
                              /\ k.log[f].detail.rkey = RkeyOf(k.results[n - 1].uri)

\* C20 witness: the third create of a thread is in flight with two
\* references returned.
C20_ThirdCreateInFlight ==
  \E c \in AllCalls :
    /\ calls[c].name = "create_thread" /\ calls[c].pc = "submitting"
    /\ Len(calls[c].results) = 2
    /\ Cardinality(OpsIn(calls[c], "createRecord")) = 3

\* C21: the record a post call submits embeds one list with an entry per
\* image of the arguments, in their order: entry j holds the blob the
\* upstream returned for the upload of image j (its type and size are
\* those of image j, and no blob appears twice) and the alt text of image
\* j, or "" when it has none.
C21_EmbedKeepsArgumentOrder ==
  \A c \in AllCalls :
    (calls[c].name = "post" /\ Len(calls[c].uploaded) > 0)
      => LET k == calls[c]
             given == Get(k.args.images)
         IN \A m \in OpsIn(k, "createRecord") :
              LET embed == Get(k.log[m].detail.embed)
              IN /\ embed.type = "app.bsky.embed.images"
                 /\ Len(embed.images) = Len(given)
                 /\ \A j \in 1..Len(given) :
                      LET loaded == Get(loadImage(given[j]).value)
                      IN /\ embed.images[j].image.mimeType = Get(loaded.encoding)
                         /\ embed.images[j].image.size = Len(loaded.data)
                         /\ embed.images[j].alt
                              = IF IsSome(given[j].alt) THEN Get(given[j].alt) ELSE ""
                 /\ \A i, j \in 1..Len(given) :
                      i # j => embed.images[i].image.ref # embed.images[j].image.ref

\* C21 witness: a post with a PNG and then a JPEG has been submitted after
\* the upload of the second image completed before that of the first.
C21_SecondUploadCompletedFirst ==
  \E c \in AllCalls :
    /\ calls[c].name = "post" /\ calls[c].pc = "submitting"
    /\ calls[c].args.images = Some(<<ImgPath, ImgData>>)
    /\ Get(calls[c].uploaded[2]).ref < Get(calls[c].uploaded[1]).ref

\* ------------------------------------------------------- concurrent calls

\* The calls two hosts' slots carry at the same time: a thread of the
\* fewest texts on each, with texts of its own, or a single post on the
\* second.
ConcurrentInputs ==
  [c1 |-> {[name |-> "create_thread",
            args |-> [EmptyArgs EXCEPT
                        !.posts = Some([j \in 1..MinThreadItems |-> ShortText(j)])]]},
   c2 |-> {[name |-> "create_thread",
            args |-> [EmptyArgs EXCEPT
                        !.posts = Some([j \in 1..MinThreadItems |-> ShortText(4 + j)])]],
           [name |-> "post", args |-> [EmptyArgs EXCEPT !.text = Some(ShortText(4))]]}]

\* Two calls in progress at once: the transport hands every request to the
\* dispatcher as it arrives.
NextConcurrent ==
  \/ \E c \in AllCalls :
       \/ \E in \in ConcurrentInputs[c] : CallTool(c, in.name, in.args)
       \/ GetPostResolves(c)
       \/ GetPostRejects(c)
       \/ CreateResolves(c)
       \/ CreateRejects(c)
       \/ TimerFires(c)
  \/ Tick

SpecConcurrent == Init /\ [][NextConcurrent]_vars

\* The posts the upstream stored for the create requests of call k.
CreatedBy(k) ==
  {n \in 1..Len(posts) :
     /\ posts[n].repo = MyDid
     /\ IsSome(k.args.posts)
     /\ \E j \in 1..Len(Get(k.args.posts)) : posts[n].value.text = Get(k.args.posts)[j]}

\* C22: with two create_thread calls in progress, the n-th result of a
\* call is the post stored for that call's n-th text, every post after
\* the first has as parent the result before it of the same call, the
\* results of a call are exactly the posts created for it, and the
\* success envelope lists those results.
C22_ThreadsDoNotMix ==
  \A c \in AllCalls :
    calls[c].name = "create_thread"
      => LET k == calls[c]
         IN /\ \A n \in 1..Len(k.results) :
                 /\ IsStored(k.results[n].uri)
                 /\ posts[StoredAt(k.results[n].uri)].value.text = Get(k.args.posts)[n]
                 /\ posts[StoredAt(k.results[n].uri)].value.reply
                      = IF n = 1 THEN None
                        ELSE Some([root |-> Ref(k.results[1].uri, k.results[1].cid),
                                   parent |-> Ref(k.results[n - 1].uri, k.results[n - 1].cid)])
            /\ {StoredAt(k.results[n].uri) : n \in 1..Len(k.results)} = CreatedBy(k)
            /\ Succeeded(c) => /\ Get(Get(k.env).result).thread = k.results
                                /\ Get(Get(k.env).result).count = Len(k.results)

\* C22 witness: both threads have succeeded, their creates interleaved
\* (the second thread's first post was stored between the two posts of
\* the first).
C22_TwoThreadsInterleaved ==
  /\ \A c \in AllCalls : calls[c].name = "create_thread" /\ Succeeded(c)
  /\ StoredAt(calls["c1"].results[1].uri) < StoredAt(calls["c2"].results[1].uri)
  /\ StoredAt(calls["c2"].results[1].uri) < StoredAt(calls["c1"].results[2].uri)

\* C23: a get_post_thread call whose upstream request returned a thread
\* view ends in a success envelope, whatever nodes of the view are not
\* found or blocked, and the tree it returns holds no such node.
C23_UnavailableNodesNeverFail ==
  \A c \in AllCalls :
    (calls[c].name = "get_post_thread" /\ Ended(c) /\ IsSome(calls[c].received))
      => /\ Succeeded(c)
         /\ LET thread == Get(Get(calls[c].env).result).thread
            IN IsSome(thread) => \A n \in ResultNodes(Get(thread)) : Len(n.uri) = 5

\* C24: an update_avatar call issues its profile write only after its
\* upload has returned a blob; when it has succeeded the profile record is
\* the record read by the write with that blob as avatar and every other
\* field as it was; when it failed before the write was answered, the
\* profile is as it was at the start, and without a blob no write was
\* issued.
C24_AvatarIsMergePatchAfterUpload ==
  \A c \in AllCalls :
    calls[c].name = "update_avatar"
      => LET k == calls[c]
             writes == OpsIn(k, "upsertProfile")
             hasBlob == Len(k.uploaded) = 1 /\ IsSome(k.uploaded[1])
         IN /\ writes # {}
                 => /\ hasBlob
                    /\ Cardinality(writes) = 1
                    /\ \E u \in OpsIn(k, "uploadBlob") : \A w \in writes : u < w
                    /\ \A w \in writes : k.log[w].detail.avatar = Get(k.uploaded[1])
            /\ Succeeded(c)
                 => /\ hasBlob
                    /\ profile = [Get(k.received) EXCEPT !.avatar = Some(Get(k.uploaded[1]))]
                    /\ Get(k.received) \in InitialProfiles
            /\ ~Succeeded(c) => profile \in InitialProfiles
            /\ (Failed(c) /\ ~hasBlob) => writes = {}

\* C24 witness: the avatar of an account with a full profile record has
\* been replaced.
C24_AvatarReplacedOnFullProfile ==
  \E c \in AllCalls :
    /\ calls[c].name = "update_avatar" /\ Succeeded(c)
    /\ Get(calls[c].received) = OldProfile
    /\ Get(profile.avatar) = Get(calls[c].uploaded[1])
    /\ profile.banner = OldProfile.banner
    /\ profile.description = OldProfile.description

\* C24 second case reached: an upload has failed.
C24_UploadFailed ==
  \E c \in AllCalls :
    /\ calls[c].name = "update_avatar" /\ Failed(c)
    /\ OpsIn(calls[c], "uploadBlob") # {} /\ calls[c].uploaded = <<>>

\* The step in which an upstream request of call c is rejected.
UpstreamFailsIn(c) ==
  /\ calls[c].pc \notin {"idle", "done"}
  /\ calls'[c].name = calls[c].name
  /\ IsSome(calls'[c].thrown) /\ Get(calls'[c].thrown) \in UpstreamErrors

C25_FailedCallHasItsEnvelope ==
  \A c \in AllCalls :
    UpstreamFailed(c)
      => /\ Failed(c)
         /\ calls[c].env = Some(ErrorEnvelope(calls[c].name, Get(calls[c].thrown)))
         /\ \E r \in 1..Len(responses) :
              responses[r] = [name |-> calls[c].name, isError |-> TRUE]

C25_FailureStep ==
  \A c \in AllCalls :
    /\ UpstreamFailsIn(c)
         => /\ calls'[c].log = calls[c].log
            /\ responses' = Append(responses, [name |-> calls[c].name, isError |-> TRUE])
    /\ UpstreamFailed(c)
         => \/ calls'[c] = calls[c] /\ Len(responses') = Len(responses)
            \/ served' = served + 1

\* C25: no upstream request is retried.  In the step in which a request of
\* a call is rejected the call issues no request and exactly one error
\* envelope, of that call, is written; from then on the call has ended in
\* the error envelope with the upstream message, and neither its requests
\* nor the responses change until its slot takes another call.
C25_NoRequestIsRetried ==
  []C25_FailedCallHasItsEnvelope /\ [][C25_FailureStep]_vars

\* C25 witness: a call has failed on its second or a later upstream request.
C25_FailedAfterAnAnsweredRequest ==
  \E c \in AllCalls :
    /\ UpstreamFailed(c) /\ Failed(c)
    /\ Len(calls[c].log) >= 2
    /\ calls[c].effects > 0

\* C26: the pacing delay holds up its own create_thread call only.  While
\* a call waits, another slot takes a call and a create of another call is
\* answered; a create_thread call starts one timer per post, the last
\* post's included, so its success envelope comes no sooner than N delays
\* after the call's first request.
C26_DelayIsPerCall ==
  \A c \in AllCalls :
    calls[c].name = "create_thread"
      => LET k == calls[c]
             timers == OpsIn(k, "setTimeout")
         IN /\ k.pc = "sleeping"
                 => \A d \in AllCalls \ {c} :
                      /\ calls[d].pc = "idle"
                           => \A in \in ConcurrentInputs[d] : ENABLED CallTool(d, in.name, in.args)
                      /\ calls[d].pc = "submitting" => ENABLED CreateResolves(d)
            /\ Cardinality(timers) = Len(k.results)
            /\ Succeeded(c)
                 => /\ Len(k.results) = Len(Get(k.args.posts))
                    /\ LastRequest(k).op = "setTimeout"
                    /\ now >= k.log[1].at + Len(k.results) * PacingDelayMs

\* C26 witness: a post call arrived, was submitted and succeeded while a
\* create_thread call was waiting on one timer, less than one delay
\* after a create of that call.
C26_PostServedDuringDelay ==
  /\ calls["c1"].name = "create_thread" /\ calls["c1"].pc = "sleeping"
  /\ calls["c2"].name = "post" /\ Succeeded("c2")
  /\ calls["c2"].log[1].at >= LastRequest(calls["c1"]).at
  /\ calls["c2"].log[1].at < calls["c1"].wakeAt
  /\ \E m \in OpsIn(calls["c1"], "createRecord") :
       /\ calls["c2"].log[1].at - calls["c1"].log[m].at < PacingDelayMs
       /\ calls["c1"].log[m].at - calls["c2"].log[1].at < PacingDelayMs

\* C26 second case reached: a thread of MinThreadItems posts has
\* succeeded.
C26_ThreadSucceeded ==
  \E c \in AllCalls :
    /\ calls[c].name = "create_thread" /\ Succeeded(c)
    /\ now >= MinThreadItems * PacingDelayMs

\* A cid that is the hash of no stored record.
StaleCid == <<"bafy", "stale">>

\* The arguments of the reply calls of SpecReply: a stored post or a
\* missing one, with the cid of the stored record or a stale one.
ReplyInputs ==
  TargetInputs
    \cup {[EmptyArgs EXCEPT !.text = Some(ShortText(1)), !.uri = Some(RefOf(posts[n]).uri),
                            !.cid = Some(StaleCid)] : n \in 1..Len(posts)}

\* Reply calls: the parent fetch and the create are answered or fail.
NextReply ==
  \E c \in HostCalls :
    \/ \E args \in ReplyInputs : CallTool(c, "reply", args)
    \/ \E args \in ReplyInputs : NextCall(c, "reply", args)
    \/ GetPostResolves(c)
    \/ GetPostRejects(c)
    \/ CreateResolves(c)
    \/ CreateRejects(c)

SpecReply == Init /\ [][NextReply]_vars

\* The images client.post is given beside replyTo in C27.
ReplyImages == Get(loadImages(<<ImgPath, ImgData>>).value)

\* C27: the record a reply call submits has as parent the uri and cid of
\* the arguments, whatever the hash of the stored parent is, and the same
\* pair as root when the fetched parent has no reply context; a call whose
\* parent fetch failed has issued no upload and no create and changed
\* nothing.  While the fetch is pending client.post has issued nothing
\* else, also when it was given images: they are uploaded only once the
\* parent record has arrived.
C27_ReplyKeepsCallersReference ==
  \A c \in AllCalls :
    calls[c].name = "reply"
      => LET k == calls[c]
             given == Ref(Get(k.args.uri), Get(k.args.cid))
         IN /\ \A m \in OpsIn(k, "createRecord") :
                 LET parentRecord == posts[StoredAt(given.uri)].value
                     reply == Get(k.log[m].detail.reply)
                 IN /\ IsSome(k.log[m].detail.reply)
                    /\ reply.parent = given
                    /\ ~IsSome(parentRecord.reply) => reply.root = given
            /\ (Failed(c) /\ OpsIn(k, "createRecord") = {})
                 => /\ Len(k.log) = 1 /\ k.log[1].op = "getPost"
                    /\ k.effects = 0
            /\ k.pc = "fetching"
                 => LET withImages == [k EXCEPT !.images = Some(ReplyImages)]
                    IN /\ Len(k.log) = 1 /\ k.log[1].op = "getPost"
                       /\ \A msg \in UpstreamErrors :
                            LET failed == handler_rejected(withImages, msg)
                            IN failed.pc = "done" /\ failed.log = k.log
                       /\ \A n \in 1..Len(posts) :
                            LET after == post_afterGetPost(withImages, posts[n].value, now)
                            IN /\ after.pc = "uploading"
                               /\ OpsIn(after, "uploadBlob") = 2..(1 + Len(ReplyImages))
                               /\ OpsIn(after, "createRecord") = {}

\* C27 witness: a reply to a stored top-level post was stored with a cid
\* that is not the hash of the parent.
C27_RepliedWithStaleCid ==
  \E c \in AllCalls :
    /\ calls[c].name = "reply" /\ Succeeded(c)
    /\ calls[c].args.cid = Some(StaleCid)
    /\ ~IsSome(posts[StoredAt(Get(calls[c].args.uri))].value.reply)
    /\ \E n \in 1..Len(posts) :
         /\ IsSome(posts[n].value.reply)
         /\ Get(posts[n].value.reply).parent.cid = StaleCid

\* C27 second case reached: the parent fetch of a reply has failed.
C27_ParentFetchFailed ==
  \E c \in AllCalls :
    calls[c].name = "reply" /\ Failed(c) /\ LastRequest(calls[c]).op = "getPost"

\* The arguments of the add_to_list calls: one list, either actor.
AddToListInputs ==
  {[EmptyArgs EXCEPT !.list_uri = Some(AtUri(MyDid, ListCollection, "3list")),
                     !.did = Some(Actors[a])] : a \in 1..Len(Actors)}

\* The arguments of the remove_from_list calls: the uri of a stored
\* membership as add_to_list returned it, the same record key under
\* another account's repo or under another collection, or a record key
\* that names nothing.
RemoveFromListInputs ==
  {[EmptyArgs EXCEPT !.listitem_uri = Some(AtUri(repo, collection, rkey))] :
     repo \in {MyDid, OtherDid},
     collection \in {ListItemCollection, LikeCollection},
     rkey \in {records[n].rkey : n \in 1..Len(records)} \cup {"3zzz"}}

\* Members are added to a list and removed from it.
NextList ==
  \E c \in AllCalls :
    \/ \E args \in AddToListInputs : CallTool(c, "add_to_list", args)
    \/ \E args \in RemoveFromListInputs : CallTool(c, "remove_from_list", args)
    \/ \E args \in RemoveFromListInputs : NextCall(c, "remove_from_list", args)
    \/ RequestResolves(c)
    \/ RequestRejects(c)

SpecList == Init /\ [][NextList]_vars

\* The one delete every remove_from_list call issues: in the repo of the
\* session, under the last segment of the uri; when the call has
\* succeeded no membership with that record key is left.
C28_OneDeleteByLastSegment ==
  \A c \in AllCalls :
    calls[c].name = "remove_from_list"
      => LET k == calls[c]
             uri == Get(k.args.listitem_uri)
         IN /\ Len(k.log) = 1
            /\ k.log[1].op = "deleteListItem"
            /\ k.log[1].detail = [repo |-> Some(MyDid), rkey |-> uri[Len(uri)]]
            /\ \A d \in AllCalls :
                 (calls[d].name = "remove_from_list"
                    /\ RkeyOf(Get(calls[d].args.listitem_uri)) = RkeyOf(uri))
                   => calls[d].log[1].detail = k.log[1].detail
            /\ Succeeded(c)
                 => \A n \in 1..Len(records) :
                      (records[n].collection = ListItemCollection
                         /\ records[n].rkey = uri[Len(uri)]) => records[n].deleted

\* A record is deleted only in the step that answers a remove_from_list
\* call whose uri ends in the record's key, and only a membership is.
C28_OnlyThatMembershipRemoved ==
  \A n \in 1..Len(records) :
    (records'[n].deleted /\ ~records[n].deleted)
      => /\ records[n].collection = ListItemCollection
         /\ \E c \in AllCalls :
              /\ calls[c].name = "remove_from_list" /\ calls[c].pc = "requesting"
              /\ Succeeded(c)'
              /\ RkeyOf(Get(calls[c].args.listitem_uri)) = records[n].rkey

\* C28: remove_from_list issues exactly one upstream delete, in the
\* authenticated account's repo and under the last path segment of the
\* uri; the repo and collection segments of the uri have no influence, so
\* two uris with the same last segment cause the same delete; the uri
\* add_to_list returned removes that membership and no other record.
C28_RemoveFromListByRecordKey ==
  []C28_OneDeleteByLastSegment /\ [][C28_OnlyThatMembershipRemoved]_vars

\* C28 witness: a membership was removed through a uri that names
\* another account's repo and another collection.
C28_RemovedThroughForeignUri ==
  \E c \in AllCalls, n \in 1..Len(records) :
    /\ calls[c].name = "remove_from_list" /\ Succeeded(c)
    /\ Get(calls[c].args.listitem_uri)
         = AtUri(OtherDid, LikeCollection, records[n].rkey)
    /\ records[n].collection = ListItemCollection /\ records[n].deleted

\* C28 second case reached: the uri add_to_list returned was removed.
C28_RemovedThroughReturnedUri ==
  \E c \in AllCalls, n \in 1..Len(records) :
    /\ calls[c].name = "remove_from_list" /\ Succeeded(c)
    /\ Get(calls[c].args.listitem_uri) = RecordUri(records[n])
    /\ records[n].deleted

\* C29: in the result of an update_profile call that succeeded,
\* updated.displayName is true exactly when the call wrote the given
\* displayName to the profile record, whatever the value, the empty string
\* included; likewise updated.description.
C29_UpdatedFlagsTellWhatWasWritten ==
  \A c \in AllCalls :
    (calls[c].name = "update_profile" /\ Succeeded(c))
      => LET args == calls[c].args
             updated == Get(Get(calls[c].env).result).updated
         IN /\ updated.displayName
                 = (IsSome(args.displayName) /\ profile.displayName = args.displayName)
            /\ updated.description
                 = (IsSome(args.description) /\ profile.description = args.description)

\* C30: a get_post_thread call whose upstream answer has a root that is
\* not found ends in a success envelope with thread null and the message
\* of a retrieved thread, and so would one whose answer held no thread at
\* all; neither ends in an error envelope.
C30_MissingRootIsSuccessWithNull ==
  \A c \in AllCalls :
    calls[c].name = "get_post_thread"
      => LET k == calls[c]
             nullResult == [thread |-> None, message |-> "Thread retrieved successfully"]
         IN /\ (Ended(c) /\ IsSome(k.received) /\ Get(k.received).type = NotFoundPost)
                 => /\ Succeeded(c)
                    /\ ~IsSome(k.thrown)
                    /\ Get(k.env).result = Some(nullResult)
            /\ k.pc = "requesting"
                 => get_post_thread_return(k, AbsentThread).env
                      = Some(SuccessEnvelope(nullResult))

\* C30 witness: a call whose root was not found has ended.
C30_RootNotFoundAnswered ==
  \E c \in AllCalls :
    /\ calls[c].name = "get_post_thread" /\ Ended(c)
    /\ IsSome(calls[c].received) /\ Get(calls[c].received).type = NotFoundPost
    /\ Len(responses) = 1 /\ ~responses[1].isError

====
